-------------------------- MODULE MultiReaderProofs --------------------------
(***************************************************************************)
(* For any number of chunks and stores: a read that ends without the chunk *)
(* has seen every copy fail, provided that each iteration of a loop has a  *)
(* variable of its own.  Then StoreRestore: its parts are MultiReader and  *)
(* Restore, whose theorems hold of it, and what the reads tell the chain   *)
(* (Link) makes the losses of a group those of failing stores.             *)
(***************************************************************************)
EXTENDS StoreRestore, FiniteSetTheorems, TLAPS

LEMMA InitInv == Init => IndInv
<1> SUFFICES ASSUME Init PROVE IndInv
  OBVIOUS
<1>1. Cardinality(bad) = 0
  BY FS_EmptySet DEF Init
<1>2. owners \in [Chunk -> SUBSET Store]
  BY MultiReaderAssumption DEF Init
<1>3. TypeOK
  BY <1>1, <1>2, MultiReaderAssumption DEF Init, TypeOK
<1>4. RegistryInv /\ LostOnlyIfAllFail
  BY DEF Init, RegistryInv, LostOnlyIfAllFail
<1> QED
  BY <1>3, <1>4 DEF IndInv

(* A shuffled set of owners is a sequence of them. *)
LEMMA OrdersAreSeqs ==
  ASSUME NEW S \in SUBSET Store, S # {}, NEW o \in Orders(S)
  PROVE  /\ o \in Seq(Store) /\ Len(o) \in Nat /\ Len(o) >= 1
         /\ \A s \in S : \E i \in 1 .. Len(o) : o[i] = s
<1>1. IsFiniteSet(S) /\ Cardinality(S) \in Nat
  BY MultiReaderAssumption, FS_Subset, FS_CardinalityType
<1>2. Cardinality(S) # 0
  BY <1>1, FS_EmptySet
<1>3. o \in [1 .. Cardinality(S) -> S] /\ \A s \in S : \E i \in DOMAIN o : o[i] = s
  BY DEF Orders
<1>4. o \in Seq(S) /\ Len(o) = Cardinality(S) /\ DOMAIN o = 1 .. Len(o)
  BY <1>1, <1>3
<1>5. o \in Seq(Store)
  BY <1>1, <1>3
<1> QED
  BY <1>1, <1>2, <1>3, <1>4, <1>5

LEMMA LookupStep ==
  ASSUME IndInv, NEW c \in Chunk, Lookup(c)
  PROVE  IndInv'
<1>0. TypeOK /\ RegistryInv /\ LostOnlyIfAllFail /\ pc[c] = "new" /\ at[c] = 1
      /\ owners[c] \in SUBSET Store /\ owners[c] # {}
  BY DEF IndInv, Lookup, TypeOK, RegistryInv
<1>1. PICK o \in Orders(owners[c]) : order' = [order EXCEPT ![c] = o]
  BY DEF Lookup
<1>2. /\ o \in Seq(Store) /\ Len(o) \in Nat /\ Len(o) >= 1
      /\ \A s \in owners[c] : \E i \in 1 .. Len(o) : o[i] = s
  BY <1>0, OrdersAreSeqs
<1>3. pc' = [pc EXCEPT ![c] = "trying"] /\ UNCHANGED <<listed, owners, at, bad>>
  BY DEF Lookup
<1>4. order'[c] = o /\ \A d \in Chunk : d # c => order'[d] = order[d]
  BY <1>0, <1>1 DEF TypeOK
<1>5. pc'[c] = "trying" /\ \A d \in Chunk : d # c => pc'[d] = pc[d]
  BY <1>0, <1>3 DEF TypeOK
<1>6. TypeOK'
  <2>1. order' \in [Chunk -> Seq(Store)]
    BY <1>0, <1>1, <1>2 DEF TypeOK
  <2>2. pc' \in [Chunk -> {"new", "trying", "read", "lost"}]
    BY <1>0, <1>3 DEF TypeOK
  <2>3. \A d \in Chunk : pc'[d] = "trying" => at'[d] \in 1 .. Len(order'[d])
    BY <1>0, <1>2, <1>3, <1>4, <1>5 DEF TypeOK
  <2> QED
    BY <1>0, <1>3, <2>1, <2>2, <2>3 DEF TypeOK
<1>7. RegistryInv'
  <2>1. \A s \in listed[c] \ bad : \E i \in at[c] .. Len(o) : o[i] = s
    <3>1. listed[c] \ bad \subseteq owners[c]
      BY <1>0 DEF RegistryInv
    <3> QED
      BY <3>1, <1>0, <1>2
  <2>2. ASSUME NEW d \in Chunk
        PROVE  /\ pc'[d] = "new" => at'[d] = 1
               /\ listed'[d] \ owners'[d] \subseteq bad'
               /\ pc'[d] = "trying" =>
                    \A s \in listed'[d] \ bad' :
                      \E i \in at'[d] .. Len(order'[d]) : order'[d][i] = s
    <3>1. CASE d = c
      BY <3>1, <2>1, <1>0, <1>3, <1>4, <1>5 DEF RegistryInv
    <3>2. CASE d # c
      BY <3>2, <1>0, <1>3, <1>4, <1>5 DEF RegistryInv
    <3> QED
      BY <3>1, <3>2
  <2> QED
    BY <2>2 DEF RegistryInv
<1>8. LostOnlyIfAllFail'
  BY <1>0, <1>3, <1>5 DEF LostOnlyIfAllFail
<1> QED
  BY <1>6, <1>7, <1>8 DEF IndInv

(* The end of a read: with nobody to ask, or with the chunk. *)
LEMMA EndSteps ==
  ASSUME IndInv, NEW c \in Chunk, NoneAvailable(c) \/ Succeed(c)
  PROVE  IndInv'
<1>0. TypeOK /\ RegistryInv /\ LostOnlyIfAllFail
  BY DEF IndInv
<1>1. UNCHANGED <<listed, owners, order, at, bad>>
  BY DEF NoneAvailable, Succeed
<1>2. PICK r \in {"lost", "read"} : /\ pc' = [pc EXCEPT ![c] = r]
                                    /\ r = "lost" => owners[c] = {}
  BY DEF NoneAvailable, Succeed
<1>3. pc'[c] = r /\ \A d \in Chunk : d # c => pc'[d] = pc[d]
  BY <1>0, <1>2 DEF TypeOK
<1>4. TypeOK'
  <2>1. pc' \in [Chunk -> {"new", "trying", "read", "lost"}]
    BY <1>0, <1>2 DEF TypeOK
  <2>2. \A d \in Chunk : pc'[d] = "trying" => pc[d] = "trying"
    BY <1>2, <1>3
  <2> QED
    BY <1>0, <1>1, <2>1, <2>2 DEF TypeOK
<1>5. RegistryInv'
  BY <1>0, <1>1, <1>2, <1>3 DEF RegistryInv
<1>6. LostOnlyIfAllFail'
  <2>1. owners[c] = {} => listed[c] \subseteq bad
    BY <1>0 DEF RegistryInv
  <2> QED
    BY <2>1, <1>0, <1>1, <1>2, <1>3 DEF LostOnlyIfAllFail
<1> QED
  BY <1>4, <1>5, <1>6 DEF IndInv

LEMMA FailStep ==
  ASSUME ~OneVariable, IndInv, NEW c \in Chunk, Fail(c)
  PROVE  IndInv'
<1> DEFINE x == order[c][at[c]]
<1>0. TypeOK /\ RegistryInv /\ LostOnlyIfAllFail /\ pc[c] = "trying" /\ x \in bad
      /\ at[c] \in 1 .. Len(order[c]) /\ at[c] \in Nat /\ Len(order[c]) \in Nat
  BY DEF IndInv, Fail, TypeOK
<1>1. UNCHANGED <<listed, order, bad>>
      /\ \A d \in Chunk : owners'[d] = owners[d] \ {x}
      /\ owners' \in [Chunk -> SUBSET Store]
  BY <1>0 DEF Fail, RemoveOwner, Removed, TypeOK
<1>2. \A d \in Chunk : listed[d] \ owners'[d] \subseteq bad
  BY <1>0, <1>1 DEF RegistryInv
<1>3. \A s \in listed[c] \ bad : \E i \in at[c] + 1 .. Len(order[c]) : order[c][i] = s
  <2> SUFFICES ASSUME NEW s \in listed[c] \ bad
               PROVE  \E i \in at[c] + 1 .. Len(order[c]) : order[c][i] = s
    OBVIOUS
  <2>1. PICK i \in at[c] .. Len(order[c]) : order[c][i] = s
    BY <1>0 DEF RegistryInv
  <2>2. i # at[c]
    BY <2>1, <1>0
  <2>3. i \in at[c] + 1 .. Len(order[c])
    BY <2>2, <1>0
  <2> QED
    BY <2>1, <2>3
<1>4. CASE at[c] < Len(order[c]) /\ at' = [at EXCEPT ![c] = @ + 1] /\ UNCHANGED pc
  <2>1. at'[c] = at[c] + 1 /\ \A d \in Chunk : d # c => at'[d] = at[d]
    BY <1>0, <1>4 DEF TypeOK
  <2>2. TypeOK'
    <3>1. at' \in [Chunk -> Nat]
      BY <1>0, <1>4 DEF TypeOK
    <3>2. \A d \in Chunk : pc'[d] = "trying" => at'[d] \in 1 .. Len(order'[d])
      BY <1>0, <1>1, <1>4, <2>1 DEF TypeOK
    <3> QED
      BY <1>0, <1>1, <1>4, <3>1, <3>2 DEF TypeOK
  <2>3. RegistryInv'
    <3> SUFFICES ASSUME NEW d \in Chunk
                 PROVE  /\ pc'[d] = "new" => at'[d] = 1
                        /\ listed'[d] \ owners'[d] \subseteq bad'
                        /\ pc'[d] = "trying" =>
                             \A s \in listed'[d] \ bad' :
                               \E i \in at'[d] .. Len(order'[d]) : order'[d][i] = s
      BY DEF RegistryInv
    <3>1. CASE d = c
      BY <3>1, <1>0, <1>1, <1>2, <1>3, <1>4, <2>1
    <3>2. CASE d # c
      BY <3>2, <1>0, <1>1, <1>2, <1>4, <2>1 DEF RegistryInv
    <3> QED
      BY <3>1, <3>2
  <2>4. LostOnlyIfAllFail'
    BY <1>0, <1>1, <1>4 DEF LostOnlyIfAllFail
  <2> QED
    BY <2>2, <2>3, <2>4 DEF IndInv
<1>5. CASE at[c] = Len(order[c]) /\ pc' = [pc EXCEPT ![c] = "lost"] /\ UNCHANGED at
  <2>1. pc'[c] = "lost" /\ \A d \in Chunk : d # c => pc'[d] = pc[d]
    BY <1>0, <1>5 DEF TypeOK
  <2>2. TypeOK'
    <3>1. pc' \in [Chunk -> {"new", "trying", "read", "lost"}]
      BY <1>0, <1>5 DEF TypeOK
    <3> QED
      BY <1>0, <1>1, <1>5, <2>1, <3>1 DEF TypeOK
  <2>3. RegistryInv'
    BY <1>0, <1>1, <1>2, <1>5, <2>1 DEF RegistryInv
  <2>4. listed[c] \subseteq bad
    BY <1>0, <1>3, <1>5
  <2>5. LostOnlyIfAllFail'
    BY <1>0, <1>1, <2>1, <2>4 DEF LostOnlyIfAllFail
  <2> QED
    BY <2>2, <2>3, <2>5 DEF IndInv
<1> QED
  BY <1>4, <1>5 DEF Fail

LEMMA WorsenStep ==
  ASSUME IndInv, NEW s \in Store, Worsen(s)
  PROVE  IndInv'
<1>0. TypeOK /\ RegistryInv /\ LostOnlyIfAllFail
  BY DEF IndInv
<1>1. UNCHANGED <<listed, owners, pc, order, at>> /\ bad' = bad \cup {s}
      /\ s \notin bad /\ Cardinality(bad) < MaxBad
  BY DEF Worsen
<1>2. bad' \subseteq Store /\ Cardinality(bad') <= MaxBad
  <2>1. IsFiniteSet(bad) /\ Cardinality(bad) \in Nat
    BY <1>0, MultiReaderAssumption, FS_Subset, FS_CardinalityType DEF TypeOK
  <2>2. Cardinality(bad') = Cardinality(bad) + 1
    BY <1>1, <2>1, FS_AddElement
  <2> QED
    BY <1>0, <1>1, <2>1, <2>2, MultiReaderAssumption DEF TypeOK
<1>3. TypeOK'
  BY <1>0, <1>1, <1>2 DEF TypeOK
<1>4. RegistryInv'
  BY <1>0, <1>1 DEF RegistryInv
<1>5. LostOnlyIfAllFail'
  BY <1>0, <1>1 DEF LostOnlyIfAllFail
<1> QED
  BY <1>3, <1>4, <1>5 DEF IndInv

(* The registry and the cascades of a multireader lack no store that works. *)
THEOREM Invariance ==
  ASSUME ~OneVariable
  PROVE  Spec => []IndInv
<1>1. ASSUME IndInv, [Next]_vars PROVE IndInv'
  <2>1. CASE \E c \in Chunk : Step(c)
    BY <1>1, <2>1, LookupStep, EndSteps, FailStep DEF Step
  <2>2. CASE \E s \in Store : Worsen(s)
    BY <1>1, <2>2, WorsenStep
  <2>3. CASE UNCHANGED vars
    <3>1. TypeOK'
      BY <1>1, <2>3 DEF IndInv, TypeOK, vars
    <3>2. RegistryInv' /\ LostOnlyIfAllFail'
      BY <1>1, <2>3 DEF IndInv, RegistryInv, LostOnlyIfAllFail, vars
    <3> QED
      BY <3>1, <3>2 DEF IndInv
  <2> QED
    BY <1>1, <2>1, <2>2, <2>3 DEF Next, Over
<1> QED
  BY InitInv, <1>1, PTL DEF Spec

(* mrd.Process gives a chunk up only if all of its stores fail. *)
THEOREM CopiesFound ==
  ASSUME ~OneVariable
  PROVE  Spec => []LostOnlyIfAllFail
<1>1. IndInv => LostOnlyIfAllFail
  BY DEF IndInv
<1> QED
  BY <1>1, Invariance, PTL

(* One failing store at most is one store, or none. *)
LEMMA OneBad ==
  ASSUME TypeOK, Cardinality(bad) <= 1
  PROVE  \E s \in Store : bad \subseteq {s}
<1>1. IsFiniteSet(bad) /\ bad \subseteq Store /\ Store # {}
  BY MultiReaderAssumption, FS_Subset DEF TypeOK
<1>2. CASE bad = {}
  BY <1>1, <1>2
<1>3. CASE bad # {}
  <2>1. PICK s \in bad : TRUE
    BY <1>3
  <2>2. Cardinality({s}) = 1
    BY FS_Singleton
  <2>3. Cardinality(bad) \in Nat
    BY <1>1, FS_CardinalityType
  <2>4. {s} \in SUBSET bad
    BY <2>1
  <2>5. Cardinality({s}) <= Cardinality(bad)
    BY <1>1, <2>4, FS_Subset
  <2>6. Cardinality(bad) = Cardinality({s})
    BY <2>2, <2>3, <2>5
  <2>7. bad = {s}
    BY <1>1, <2>4, <2>6, FS_Subset
  <2> QED
    BY <1>1, <2>1, <2>7
<1> QED
  BY <1>2, <1>3

(* With copies as stripe makes them, one failing store never costs a group   *)
(* more shards than parity makes up for.                                     *)
THEOREM OneStoreCovered ==
  ASSUME ~OneVariable
  PROVE  Spec => []OneStoreMayFail
<1>1. IndInv => OneStoreMayFail
  <2> SUFFICES ASSUME IndInv, Cardinality(bad) <= 1, NEW g \in Groups
               PROVE  Cardinality({c \in g : pc[c] = "lost"}) <= NParity
    BY DEF OneStoreMayFail
  <2> DEFINE gone == {c \in g : pc[c] = "lost"}
  <2>1. /\ IsFiniteSet(bad) /\ bad \subseteq Store /\ g \subseteq Chunk /\ IsFiniteSet(g)
        /\ NParity \in Nat /\ Store # {}
        /\ \A s \in Store : Cardinality(OnlyOn(listed, g, s)) <= NParity
    BY MultiReaderAssumption, FS_Subset DEF IndInv, TypeOK
  <2>2. \A c \in gone : listed[c] \subseteq bad
    BY <2>1 DEF IndInv, LostOnlyIfAllFail
  <2>3. PICK s \in Store : bad \subseteq {s}
    BY OneBad DEF IndInv
  <2>5. gone \subseteq OnlyOn(listed, g, s)
    BY <2>2, <2>3 DEF OnlyOn
  <2>6. IsFiniteSet(OnlyOn(listed, g, s))
    <3>1. OnlyOn(listed, g, s) \in SUBSET g
      BY DEF OnlyOn
    <3> QED
      BY <2>1, <3>1, FS_Subset
  <2>7. IsFiniteSet(gone) /\ Cardinality(gone) <= Cardinality(OnlyOn(listed, g, s))
    BY <2>5, <2>6, FS_Subset
  <2>8. Cardinality(gone) \in Nat /\ Cardinality(OnlyOn(listed, g, s)) \in Nat
    BY <2>6, <2>7, FS_CardinalityType
  <2> QED
    BY <2>1, <2>7, <2>8
<1> QED
  BY <1>1, Invariance, PTL

-----------------------------------------------------------------------------
(* What has failed a read is known to no chunk any more, and a chunk that    *)
(* has not been looked up has no cascade.                                    *)
FailedInv ==
  /\ \A c, d \in Chunk : owners[c] \cap Failed(d) = {}
  /\ \A c \in Chunk : pc[c] = "new" => order[c] = <<>>

LEMMA NoneFailed ==
  ASSUME NEW c \in Chunk, pc[c] # "lost", at[c] = 1
  PROVE  Failed(c) = {}
  BY DEF Failed

LEMMA InitFailed == Init => FailedInv
<1> SUFFICES ASSUME Init PROVE FailedInv
  OBVIOUS
<1>1. \A c \in Chunk : pc[c] = "new" /\ at[c] = 1 /\ order[c] = <<>>
  BY DEF Init
<1> QED
  BY <1>1, NoneFailed DEF FailedInv

(* A read that begins has asked nobody, and asks none of those found failing. *)
LEMMA LookupFailed ==
  ASSUME IndInv, FailedInv, NEW c \in Chunk, Lookup(c)
  PROVE  /\ FailedInv'
         /\ \A d \in Chunk : \A i \in 1 .. Len(order'[c]) : order'[c][i] \notin Failed(d)
<1>0. TypeOK /\ pc[c] = "new" /\ at[c] = 1
      /\ owners[c] \in SUBSET Store /\ owners[c] # {}
  BY DEF IndInv, Lookup, TypeOK, RegistryInv
<1>1. PICK o \in Orders(owners[c]) : order' = [order EXCEPT ![c] = o]
  BY DEF Lookup
<1>2. pc' = [pc EXCEPT ![c] = "trying"] /\ UNCHANGED <<owners, at>>
  BY DEF Lookup
<1>3. order'[c] = o /\ pc'[c] = "trying" /\ at'[c] = 1
      /\ \A d \in Chunk : d # c => order'[d] = order[d] /\ pc'[d] = pc[d] /\ at'[d] = at[d]
  BY <1>0, <1>1, <1>2 DEF TypeOK
<1>4. \A i \in 1 .. Len(o) : o[i] \in owners[c]
  BY <1>0, MultiReaderAssumption, FS_Subset, FS_CardinalityType DEF Orders
<1>5. Failed(c)' = {}
  BY <1>3 DEF Failed
<1>6. \A d \in Chunk : d # c => Failed(d)' = Failed(d)
  BY <1>3 DEF Failed
<1>7. FailedInv'
  BY <1>2, <1>3, <1>5, <1>6 DEF FailedInv
<1>8. \A d \in Chunk : owners[c] \cap Failed(d) = {}
  BY DEF FailedInv
<1> QED
  BY <1>3, <1>4, <1>7, <1>8

LEMMA EndFailed ==
  ASSUME IndInv, FailedInv, NEW c \in Chunk, NoneAvailable(c) \/ Succeed(c)
  PROVE  FailedInv'
<1>0. TypeOK
  BY DEF IndInv
<1>1. UNCHANGED <<owners, order, at>>
  BY DEF NoneAvailable, Succeed
<1>2. PICK r \in {"lost", "read"} : /\ pc' = [pc EXCEPT ![c] = r]
                                    /\ r = "lost" => pc[c] = "new"
                                    /\ r = "read" => pc[c] = "trying"
  BY DEF NoneAvailable, Succeed
<1>3. pc'[c] = r /\ \A d \in Chunk : d # c => pc'[d] = pc[d]
  BY <1>0, <1>2 DEF TypeOK
<1>4. \A d \in Chunk : d # c => Failed(d)' = Failed(d)
  BY <1>1, <1>3 DEF Failed
<1>5. Failed(c)' \subseteq Failed(c)
  <2>1. CASE r = "lost"
    <3>1. order'[c] = <<>> /\ pc'[c] = "lost"
      BY <2>1, <1>1, <1>2, <1>3 DEF FailedInv
    <3>2. Failed(c)' = {}
      BY <3>1 DEF Failed
    <3> QED
      BY <3>2
  <2>2. CASE r = "read"
    BY <2>2, <1>1, <1>2, <1>3 DEF Failed
  <2> QED
    BY <2>1, <2>2
<1> QED
  BY <1>1, <1>2, <1>3, <1>4, <1>5 DEF FailedInv

(* What fails is taken from all chunks' owners. *)
LEMMA FailFailed ==
  ASSUME ~OneVariable, IndInv, FailedInv, NEW c \in Chunk, Fail(c)
  PROVE  FailedInv'
<1> DEFINE x == order[c][at[c]]
<1>0. TypeOK /\ pc[c] = "trying"
      /\ at[c] \in 1 .. Len(order[c]) /\ at[c] \in Nat /\ Len(order[c]) \in Nat
  BY DEF IndInv, Fail, TypeOK
<1>1. UNCHANGED order /\ \A d \in Chunk : owners'[d] = owners[d] \ {x}
  BY <1>0 DEF Fail, RemoveOwner, Removed, TypeOK
<1>2. /\ pc'[c] # "new"
      /\ \A d \in Chunk : d # c => pc'[d] = pc[d] /\ at'[d] = at[d]
      /\ \/ pc'[c] # "lost" /\ at'[c] = at[c] + 1
         \/ pc'[c] = "lost" /\ at[c] = Len(order[c])
  BY <1>0 DEF Fail, TypeOK
<1>3. Failed(c) = {order[c][i] : i \in 1 .. at[c] - 1}
  BY <1>0 DEF Failed
<1>4. Failed(c)' = {order[c][i] : i \in 1 .. at[c]}
  BY <1>0, <1>1, <1>2 DEF Failed
<1>5. Failed(c)' \subseteq Failed(c) \cup {x}
  BY <1>0, <1>3, <1>4
<1>6. \A d \in Chunk : d # c => Failed(d)' = Failed(d)
  BY <1>1, <1>2 DEF Failed
<1>7. ASSUME NEW b \in Chunk, NEW d \in Chunk PROVE owners'[b] \cap Failed(d)' = {}
  <2>1. Failed(d)' \subseteq Failed(d) \cup {x}
    BY <1>5, <1>6
  <2>2. owners[b] \cap Failed(d) = {} /\ owners'[b] = owners[b] \ {x}
    BY <1>1 DEF FailedInv
  <2> QED
    BY <2>1, <2>2
<1> QED
  BY <1>1, <1>2, <1>7 DEF FailedInv

LEMMA RestFailed ==
  ASSUME FailedInv, UNCHANGED <<owners, pc, order, at>>
  PROVE  FailedInv'
<1>1. \A d \in Chunk : Failed(d)' = Failed(d)
  BY DEF Failed
<1> QED
  BY <1>1 DEF FailedInv

(* A store that has failed one read is asked by none that begins later: it   *)
(* is taken from the registry before the next is tried.                      *)
THEOREM FailingNotAskedAgain ==
  ASSUME ~OneVariable
  PROVE  Spec => NotAskedAgain
<1>1. ASSUME IndInv, FailedInv, [Next]_vars
      PROVE  /\ FailedInv'
             /\ \A c, d \in Chunk : pc[c] = "new" /\ pc'[c] = "trying" =>
                  \A i \in 1 .. Len(order'[c]) : order'[c][i] \notin Failed(d)
  <2>1. FailedInv'
    <3>1. CASE \E c \in Chunk : Step(c)
      BY <1>1, <3>1, LookupFailed, EndFailed, FailFailed DEF Step
    <3>2. CASE (\E s \in Store : Worsen(s)) \/ UNCHANGED vars
      BY <1>1, <3>2, RestFailed DEF Worsen, vars
    <3> QED
      BY <1>1, <3>1, <3>2 DEF Next, Over
  <2>2. ASSUME NEW c \in Chunk, NEW d \in Chunk, pc[c] = "new", pc'[c] = "trying"
        PROVE  \A i \in 1 .. Len(order'[c]) : order'[c][i] \notin Failed(d)
    <3>1. pc[c] # pc'[c] /\ TypeOK
      BY <1>1, <2>2 DEF IndInv
    <3>2. PICK b \in Chunk : Step(b)
      BY <1>1, <3>1 DEF Next, Over, Worsen, vars
    <3>3. ASSUME b # c PROVE pc'[c] = pc[c]
      BY <3>1, <3>2, <3>3 DEF Step, Lookup, NoneAvailable, Succeed, Fail, TypeOK
    <3>4. Step(c)
      BY <3>1, <3>2, <3>3
    <3>5. Lookup(c)
      BY <3>1, <3>4, <2>2 DEF Step, NoneAvailable, Succeed, Fail, TypeOK
    <3> QED
      BY <1>1, <3>5, LookupFailed
  <2> QED
    BY <2>1, <2>2
<1> QED
  BY <1>1, InitFailed, Invariance, PTL DEF Spec, NotAskedAgain
-----------------------------------------------------------------------------
(* Reads end, with one variable for all iterations too.                    *)

\* A cascade has no more places than there are stores, and a read is at one.
ReadInv ==
  /\ owners \in [Chunk -> SUBSET Store] /\ bad \subseteq Store
  /\ pc \in [Chunk -> {"new", "trying", "read", "lost"}]
  /\ order \in [Chunk -> Seq(Store)] /\ at \in [Chunk -> Nat]
  /\ \A c \in Chunk : pc[c] = "trying" => /\ at[c] \in 1 .. Len(order[c])
                                          /\ Len(order[c]) <= Cardinality(Store)
  /\ \A c \in Chunk : pc[c] = "new" => at[c] = 1

LEMMA InitRead == Init => ReadInv
<1>1. ASSUME Init PROVE owners \in [Chunk -> SUBSET Store]
  BY <1>1, MultiReaderAssumption DEF Init
<1> QED
  BY <1>1 DEF Init, ReadInv

LEMMA OrderLen ==
  ASSUME NEW S \in SUBSET Store, S # {}, NEW o \in Orders(S)
  PROVE  o \in Seq(Store) /\ Len(o) \in Nat /\ Len(o) >= 1 /\ Len(o) <= Cardinality(Store)
<1>1. IsFiniteSet(Store) /\ Cardinality(Store) \in Nat
  BY MultiReaderAssumption, FS_CardinalityType
<1>2. Cardinality(S) <= Cardinality(Store) /\ Cardinality(S) \in Nat
  BY <1>1, FS_Subset, FS_CardinalityType
<1>3. o \in [1 .. Cardinality(S) -> S]
  BY DEF Orders
<1>4. Len(o) = Cardinality(S)
  BY <1>2, <1>3
<1> QED
  BY <1>2, <1>4, OrdersAreSeqs

LEMMA ReadInd == ASSUME ReadInv, [Next]_vars PROVE ReadInv'
<1>0. /\ owners \in [Chunk -> SUBSET Store] /\ bad \subseteq Store
      /\ pc \in [Chunk -> {"new", "trying", "read", "lost"}]
      /\ order \in [Chunk -> Seq(Store)] /\ at \in [Chunk -> Nat]
  BY DEF ReadInv
<1>1. ASSUME NEW c \in Chunk, Lookup(c) PROVE ReadInv'
  <2>1. PICK o \in Orders(owners[c]) : order' = [order EXCEPT ![c] = o]
    BY <1>1 DEF Lookup
  <2>2. o \in Seq(Store) /\ Len(o) \in Nat /\ Len(o) >= 1 /\ Len(o) <= Cardinality(Store)
    BY <1>0, <1>1, <2>1, OrderLen DEF Lookup
  <2>3. /\ at[c] = 1 /\ pc' = [pc EXCEPT ![c] = "trying"] /\ UNCHANGED <<owners, at, bad>>
    BY <1>1 DEF Lookup, ReadInv
  <2>4. order' \in [Chunk -> Seq(Store)] /\ pc' \in [Chunk -> {"new", "trying", "read", "lost"}]
    BY <1>0, <2>1, <2>2, <2>3
  <2>5. \A d \in Chunk : /\ pc'[d] = IF d = c THEN "trying" ELSE pc[d]
                         /\ order'[d] = IF d = c THEN o ELSE order[d]
    BY <1>0, <2>1, <2>3
  <2>6. \A d \in Chunk : pc'[d] = "trying" => /\ at'[d] \in 1 .. Len(order'[d])
                                              /\ Len(order'[d]) <= Cardinality(Store)
    BY <2>2, <2>3, <2>5 DEF ReadInv
  <2>7. \A d \in Chunk : pc'[d] = "new" => at'[d] = 1
    BY <2>3, <2>5 DEF ReadInv
  <2> QED
    BY <1>0, <2>3, <2>4, <2>6, <2>7 DEF ReadInv
<1>2. ASSUME NEW c \in Chunk, NoneAvailable(c) \/ Succeed(c) PROVE ReadInv'
  <2>1. PICK r \in {"lost", "read"} : pc' = [pc EXCEPT ![c] = r]
    BY <1>2 DEF NoneAvailable, Succeed
  <2>2. \A d \in Chunk : pc'[d] = IF d = c THEN r ELSE pc[d]
    BY <1>0, <2>1
  <2>3. UNCHANGED <<owners, order, at, bad>>
    BY <1>2 DEF NoneAvailable, Succeed
  <2> QED
    BY <1>0, <2>1, <2>2, <2>3 DEF ReadInv
<1>3. ASSUME NEW c \in Chunk, Fail(c) PROVE ReadInv'
  <2>1. /\ owners' = [d \in Chunk |-> owners[d] \ {Removed(c)}] /\ UNCHANGED <<order, bad>>
        /\ pc[c] = "trying"
    BY <1>3 DEF Fail, RemoveOwner
  <2>2. owners' \in [Chunk -> SUBSET Store]
    BY <1>0, <2>1
  <2>3. CASE at[c] < Len(order[c]) /\ at' = [at EXCEPT ![c] = @ + 1] /\ UNCHANGED pc
    <3>1. at[c] \in Nat /\ Len(order[c]) \in Nat
      BY <1>0
    <3>2. at' \in [Chunk -> Nat] /\ \A d \in Chunk : at'[d] = IF d = c THEN at[c] + 1 ELSE at[d]
      BY <1>0, <2>3
    <3>3. \A d \in Chunk : pc'[d] = "trying" => at'[d] \in 1 .. Len(order'[d])
      BY <2>1, <2>3, <3>1, <3>2 DEF ReadInv
    <3> QED
      BY <1>0, <2>1, <2>2, <2>3, <3>2, <3>3 DEF ReadInv
  <2>4. CASE pc' = [pc EXCEPT ![c] = "lost"] /\ UNCHANGED at
    <3>1. \A d \in Chunk : pc'[d] = IF d = c THEN "lost" ELSE pc[d]
      BY <1>0, <2>4
    <3> QED
      BY <1>0, <2>1, <2>2, <2>4, <3>1 DEF ReadInv
  <2> QED
    BY <1>3, <2>3, <2>4 DEF Fail
<1>4. ASSUME NEW s \in Store, Worsen(s) PROVE ReadInv'
  BY <1>4 DEF Worsen, ReadInv
<1>5. CASE UNCHANGED vars
  BY <1>5 DEF vars, ReadInv
<1> QED
  BY <1>1, <1>2, <1>3, <1>4, <1>5 DEF Next, Step, Over

LEMMA LeftBySet ==
  ASSUME LookupsLeft' \subseteq LookupsLeft, ReadsLeft' \subseteq ReadsLeft,
         TriesLeft' \subseteq TriesLeft, GoodLeft' \subseteq GoodLeft,
         \/ LookupsLeft' # LookupsLeft \/ ReadsLeft' # ReadsLeft
         \/ TriesLeft' # TriesLeft \/ GoodLeft' # GoodLeft
  PROVE  Shrinks
<1>1. /\ Left' = <<LookupsLeft', ReadsLeft', TriesLeft', GoodLeft'>>
      /\ Left = <<LookupsLeft, ReadsLeft, TriesLeft, GoodLeft>>
  BY DEF Left
<1>2. \A k \in 1 .. 4 : k = 1 \/ k = 2 \/ k = 3 \/ k = 4
  OBVIOUS
<1>3. \A k \in 1 .. 4 : Left'[k] \subseteq Left[k]
  BY <1>1, <1>2
<1>4. Left' # Left
  BY <1>1
<1> QED
  BY <1>3, <1>4 DEF Shrinks

\* A read goes forward: it is begun once, moves down its cascade and ends.
LEMMA ReadShrinks ==
  ASSUME ReadInv, NEW c \in Chunk, Step(c)
  PROVE  Shrinks
<1>0. /\ pc \in [Chunk -> {"new", "trying", "read", "lost"}] /\ at \in [Chunk -> Nat]
      /\ \A d \in Chunk : /\ at[d] \in Nat
                          /\ pc[d] = "new" => at[d] = 1
  BY DEF ReadInv
<1>1. /\ \A d \in Chunk : d # c => pc'[d] = pc[d] /\ at'[d] = at[d]
      /\ UNCHANGED bad
  BY <1>0 DEF Step, Lookup, NoneAvailable, Succeed, Fail
<1>2. \/ pc[c] = "new" /\ pc'[c] = "trying" /\ at'[c] = at[c]
      \/ pc[c] = "trying" /\ pc'[c] = "trying" /\ at'[c] = at[c] + 1
      \/ pc[c] \in {"new", "trying"} /\ pc'[c] \in {"read", "lost"}
  BY <1>0 DEF Step, Lookup, NoneAvailable, Succeed, Fail
<1>3. LookupsLeft' \subseteq LookupsLeft /\ ReadsLeft' \subseteq ReadsLeft /\ GoodLeft' = GoodLeft
  BY <1>1, <1>2 DEF LookupsLeft, ReadsLeft, GoodLeft
<1>4. ASSUME NEW x \in TriesLeft' PROVE x \in TriesLeft
  <2>1. /\ x \in Chunk \X (1 .. Cardinality(Store)) /\ x[1] \in Chunk /\ x[2] \in Int /\ x[2] >= 1
        /\ pc'[x[1]] = "new" \/ (pc'[x[1]] = "trying" /\ x[2] >= at'[x[1]])
    BY <1>4 DEF TriesLeft
  <2>2. pc[x[1]] = "new" \/ (pc[x[1]] = "trying" /\ x[2] >= at[x[1]])
    <3>1. CASE x[1] # c
      BY <1>1, <2>1, <3>1
    <3>2. CASE x[1] = c
      <4>1. pc'[c] = "trying" /\ x[2] >= at'[c]
        BY <1>2, <2>1, <3>2
      <4>2. pc[c] = "new" \/ (pc[c] = "trying" /\ at'[c] = at[c] + 1)
        BY <1>2, <4>1
      <4> QED
        BY <1>0, <2>1, <3>2, <4>1, <4>2
    <3> QED
      BY <3>1, <3>2
  <2> QED
    BY <2>1, <2>2 DEF TriesLeft
<1>5. CASE pc[c] = "new" /\ pc'[c] = "trying"
  <2>1. c \in LookupsLeft /\ c \notin LookupsLeft'
    BY <1>5 DEF LookupsLeft
  <2> QED
    BY <1>3, <1>4, <2>1, LeftBySet
<1>6. CASE pc[c] = "trying" /\ pc'[c] = "trying" /\ at'[c] = at[c] + 1
  <2>1. at[c] \in 1 .. Cardinality(Store)
    <3>1. /\ at[c] \in 1 .. Len(order[c]) /\ Len(order[c]) <= Cardinality(Store)
          /\ Len(order[c]) \in Nat
      BY <1>6 DEF ReadInv
    <3>2. Cardinality(Store) \in Nat
      BY MultiReaderAssumption, FS_CardinalityType
    <3> QED
      BY <3>1, <3>2
  <2>2. PICK n \in 1 .. Cardinality(Store) : n = at[c]
    BY <2>1
  <2> DEFINE x == <<c, n>>
  <2>3. x \in Chunk \X (1 .. Cardinality(Store)) /\ x[1] = c /\ x[2] = n
    OBVIOUS
  <2> HIDE DEF x
  <2>4. x \in TriesLeft
    BY <1>6, <2>2, <2>3 DEF TriesLeft
  <2>5. x \notin TriesLeft'
    BY <1>6, <2>2, <2>3 DEF TriesLeft
  <2> QED
    BY <1>3, <1>4, <2>4, <2>5, LeftBySet
<1>7. CASE pc[c] \in {"new", "trying"} /\ pc'[c] \in {"read", "lost"}
  <2>1. c \in ReadsLeft /\ c \notin ReadsLeft'
    BY <1>7 DEF ReadsLeft
  <2> QED
    BY <1>3, <1>4, <2>1, LeftBySet
<1> QED
  BY <1>2, <1>5, <1>6, <1>7

\* No read goes on for ever, whatever the others take from the registry and
\* whichever store a failure is put down to.
THEOREM OnlySoManySteps == Spec => [][Shrinks]_vars
<1>1. ReadInv /\ [Next]_vars => [Shrinks]_vars
  <2> SUFFICES ASSUME ReadInv, Next, ~UNCHANGED vars PROVE Shrinks
    OBVIOUS
  <2>1. ASSUME NEW s \in Store, Worsen(s) PROVE Shrinks
    <3>1. UNCHANGED <<pc, at>> /\ s \notin bad /\ bad' = bad \cup {s}
      BY <2>1 DEF Worsen
    <3>2. LookupsLeft' = LookupsLeft /\ ReadsLeft' = ReadsLeft /\ TriesLeft' = TriesLeft
      BY <3>1 DEF LookupsLeft, ReadsLeft, TriesLeft
    <3>3. GoodLeft' \subseteq GoodLeft /\ s \in GoodLeft /\ s \notin GoodLeft'
      BY <3>1 DEF GoodLeft
    <3> QED
      BY <3>2, <3>3, LeftBySet
  <2> QED
    BY <2>1, ReadShrinks DEF Next, Over
<1> QED
  BY <1>1, InitRead, ReadInd, PTL DEF Spec

\* What is left is finite, for finitely many chunks.
THEOREM LeftFinite ==
  ASSUME IsFiniteSet(Chunk)
  PROVE  \A k \in 1 .. 4 : IsFiniteSet(Left[k])
<1>1. IsFiniteSet(Store) /\ Cardinality(Store) \in Nat
  BY MultiReaderAssumption, FS_CardinalityType
<1>2. 1 \in Int /\ Cardinality(Store) \in Int
  BY <1>1
<1>3. IsFiniteSet(1 .. Cardinality(Store))
  BY <1>2, FS_Interval
<1>4. IsFiniteSet(Chunk \X (1 .. Cardinality(Store)))
  BY <1>3, FS_Product
<1>5. /\ LookupsLeft \in SUBSET Chunk /\ ReadsLeft \in SUBSET Chunk /\ GoodLeft \in SUBSET Store
      /\ TriesLeft \in SUBSET (Chunk \X (1 .. Cardinality(Store)))
  BY DEF LookupsLeft, ReadsLeft, GoodLeft, TriesLeft
<1>6. /\ IsFiniteSet(LookupsLeft) /\ IsFiniteSet(ReadsLeft) /\ IsFiniteSet(TriesLeft)
      /\ IsFiniteSet(GoodLeft)
  BY <1>1, <1>4, <1>5, FS_Subset
<1>7. \A k \in 1 .. 4 : k = 1 \/ k = 2 \/ k = 3 \/ k = 4
  OBVIOUS
<1>8. Left = <<LookupsLeft, ReadsLeft, TriesLeft, GoodLeft>>
  BY DEF Left
<1> QED
  BY <1>6, <1>7, <1>8
-----------------------------------------------------------------------------
Restored == INSTANCE RestoreProofs WITH pc <- stage

LEMMA SameStart ==
  /\ Chain!Init => Restored!Init
  /\ Chain!Num = Restored!Num /\ Chunk = Restored!Num
<1>1. Chunk = Restored!Num /\ Chain!Num = Restored!Num
  BY StoreRestoreAssumption DEF Restored!Num, Chain!Num
<1>2. Chain!Init => Restored!Init
  BY DEF Chain!Init, Restored!Init, Chain!Num, Restored!Num, Chain!Heads, Restored!Heads,
         Chain!HeadOf, Restored!HeadOf, Chain!EmptySeries, Restored!EmptySeries
<1> QED
  BY <1>1, <1>2

LEMMA SameSteps ==
  ASSUME NEW n \in Chunk
  PROVE  Chain!Step(n) => Restored!Step(n)
<1>1. Chain!Start(n) => Restored!Start(n)
  BY DEF Chain!Start, Restored!Start, Chain!To, Restored!To,
         Chain!Cardinality, Restored!Cardinality
<1>2. Chain!Fetch(n) => Restored!Fetch(n)
  BY DEF Chain!Fetch, Restored!Fetch, Chain!To, Restored!To,
         Chain!Cardinality, Restored!Cardinality
<1>3. Chain!Read(n) => Restored!Read(n)
  BY DEF Chain!Read, Restored!Read, Chain!To, Restored!To
<1>4. Chain!Group(n) => Restored!Group(n)
  BY DEF Chain!Group, Restored!Group, Chain!To, Restored!To, Chain!HeadOf, Restored!HeadOf,
         Chain!Cardinality, Restored!Cardinality
<1>5. Chain!Parity(n) => Restored!Parity(n)
  BY DEF Chain!Parity, Restored!Parity, Chain!To, Restored!To, Chain!HeadOf, Restored!HeadOf,
         Chain!Joinable, Restored!Joinable, Chain!Shards, Restored!Shards, Chain!Num, Restored!Num,
         Chain!Cardinality, Restored!Cardinality
<1>6. Chain!Join(n) => Restored!Join(n)
  BY DEF Chain!Join, Restored!Join, Chain!To, Restored!To
<1>7. Chain!Sort(n) => Restored!Sort(n)
  BY DEF Chain!Sort, Restored!Sort, Chain!To, Restored!To, Chain!HeadOf, Restored!HeadOf,
         Chain!Add, Restored!Add, Chain!Drop, Restored!Drop, Chain!Sorted, Restored!Sorted,
         Chain!PrefixLen, Restored!PrefixLen
<1>8. Chain!Write(n) => Restored!Write(n)
  BY DEF Chain!Write, Restored!Write
<1>9. Chain!WriteError(n) => Restored!WriteError(n)
  BY DEF Chain!WriteError, Restored!WriteError
<1>10. Chain!Close(n) => Restored!Close(n)
  BY DEF Chain!Close, Restored!Close, Chain!To, Restored!To
<1>11. Chain!ReleaseInner(n) => Restored!ReleaseInner(n)
  BY DEF Chain!ReleaseInner, Restored!ReleaseInner
<1>12. Chain!ReleaseJoin(n) => Restored!ReleaseJoin(n)
  BY DEF Chain!ReleaseJoin, Restored!ReleaseJoin
<1>13. Chain!ReleaseOuter(n) => Restored!ReleaseOuter(n)
  BY DEF Chain!ReleaseOuter, Restored!ReleaseOuter
<1> QED
  BY <1>1, <1>2, <1>3, <1>4, <1>5, <1>6, <1>7, <1>8, <1>9, <1>10, <1>11, <1>12, <1>13
  DEF Chain!Step, Restored!Step

LEMMA SameMain == Chain!Main => Restored!Main
<1>1. Chain!IndexError => Restored!IndexError
  BY DEF Chain!IndexError, Restored!IndexError, Chain!Line, Restored!Line
<1>2. Chain!ReceiveError => Restored!ReceiveError
  BY DEF Chain!ReceiveError, Restored!ReceiveError
<1>3. Chain!Finish => Restored!Finish
  BY DEF Chain!Finish, Restored!Finish, Chain!Drained, Restored!Drained,
         Chain!FinishErrors, Restored!FinishErrors, Chain!Short, Restored!Short,
         Chain!Line, Restored!Line, Chain!SeriesLen, Restored!SeriesLen,
         Chain!Heads, Restored!Heads, Chain!Num, Restored!Num, Chain!HeadOf, Restored!HeadOf
<1> QED
  BY <1>1, <1>2, <1>3 DEF Chain!Main, Restored!Main

\* The composition changes nothing of what its parts do: seen from the stores it
\* is MultiReader, seen from the chain it is Restore.
LEMMA StepOfBoth ==
  /\ [StoresNext]_<<vars, chain>> => [Next]_vars
  /\ [StoresNext]_<<vars, chain>> => [Restored!Next]_(Restored!vars)
<1>1. UNCHANGED chain => UNCHANGED Restored!vars
  BY DEF chain, Restored!vars
<1>2. ASSUME NEW c \in Chunk, Advance(c)
      PROVE  [Next]_vars /\ [Restored!Next]_(Restored!vars)
  <2>0. ret = "none" /\ c \in Restored!Num
    BY <1>2, SameStart DEF Advance
  <2>1. CASE Ask(c)
    BY <2>1, <1>1 DEF Ask, Next
  <2>2. CASE Answer(c) \/ Onward(c)
    <3>1. Chain!Step(c) /\ UNCHANGED vars
      BY <2>2 DEF Answer, Onward, Chain!Step
    <3>2. Restored!Step(c)
      BY <3>1, SameSteps
    <3> QED
      BY <3>1, <3>2, <2>0 DEF Restored!Next
  <2> QED
    BY <2>1, <2>2, <1>2 DEF Advance
<1>3. Main => [Next]_vars /\ [Restored!Next]_(Restored!vars)
  BY SameMain DEF Main, Restored!Next
<1>4. Decay => [Next]_vars /\ [Restored!Next]_(Restored!vars)
  BY <1>1 DEF Decay, Next
<1>5. Chain!Idle /\ UNCHANGED vars => [Next]_vars /\ [Restored!Next]_(Restored!vars)
  BY DEF Chain!Idle, Restored!Idle, Restored!Next, Chain!vars, Restored!vars
<1>6. UNCHANGED <<vars, chain>> => [Next]_vars /\ [Restored!Next]_(Restored!vars)
  BY <1>1
<1> QED
  BY <1>2, <1>3, <1>4, <1>5, <1>6 DEF StoresNext

LEMMA BothParts == StoresSpec => Spec /\ Restored!Spec
<1>1. StoresInit => Init /\ Restored!Init
  BY SameStart DEF StoresInit
<1> QED
  BY <1>1, StepOfBoth, PTL DEF StoresSpec, Spec, Restored!Spec

LEMMA ChainProved ==
  Restored!Spec => /\ [](Restored!TypeOK)
                   /\ [](Restored!ErrorJustified)
                   /\ [](Restored!NoErrorMeansWhole)
                   /\ [](Restored!OutputInOrder)
<1>1. Restored!Spec => [](Restored!TypeOK)
  BY Restored!TypeCorrect, StoreRestoreAssumption
<1>2. Restored!Spec => [](Restored!ErrorJustified)
  BY Restored!FailsForAReason, StoreRestoreAssumption
<1>3. Restored!Spec => [](Restored!NoErrorMeansWhole)
  BY Restored!EndsWhole, StoreRestoreAssumption
<1>4. Restored!Spec => [](Restored!OutputInOrder)
  BY Restored!OrderKept, StoreRestoreAssumption
<1> QED
  BY <1>1, <1>2, <1>3, <1>4

LEMMA LinkStart == StoresInit => Link
<1> SUFFICES ASSUME StoresInit, NEW c \in Chunk
             PROVE  /\ pc[c] = "new" /\ got[c] = "none" /\ order[c] = <<>>
                    /\ owners[c] = listed[c]
  BY DEF Link
<1>1. pc[c] = "new" /\ order[c] = <<>> /\ owners[c] = listed[c]
  BY DEF StoresInit, Init
<1>2. got[c] = "none"
  BY SameStart DEF StoresInit, Chain!Init
<1> QED
  BY <1>1, <1>2

\* A step of a read: got is the chain's.
LEMMA LinkAsk ==
  ASSUME Link, TypeOK, NEW c \in Chunk, Step(c), UNCHANGED got
  PROVE  Link'
<1>1. /\ UNCHANGED <<listed, bad>>
      /\ \A d \in Chunk : d # c => pc'[d] = pc[d] /\ order'[d] = order[d]
  BY DEF Step, Lookup, NoneAvailable, Succeed, Fail, TypeOK
<1>2. pc[c] \in {"new", "trying"} /\ pc'[c] # "new" /\ got[c] \notin {"lost", "error"}
  BY DEF Step, Lookup, NoneAvailable, Succeed, Fail, TypeOK, Link
<1>3. \A d \in Chunk : owners'[d] \subseteq owners[d]
  BY DEF Step, Lookup, NoneAvailable, Succeed, Fail, RemoveOwner
<1>4. /\ pc'[c] = "lost" /\ order'[c] # <<>> => order'[c][Len(order'[c])] \in bad
      /\ \A i \in 1 .. Len(order'[c]) : order'[c][i] \in listed[c]
  <2>1. CASE Lookup(c)
    <3>1. owners[c] \in SUBSET Store /\ owners[c] # {} /\ owners[c] \subseteq listed[c]
      BY <2>1 DEF Lookup, TypeOK, Link
    <3>2. PICK o \in Orders(owners[c]) : order' = [order EXCEPT ![c] = o]
      BY <2>1 DEF Lookup
    <3>3. order'[c] = o /\ pc'[c] = "trying"
      BY <2>1, <3>2 DEF Lookup, TypeOK
    <3>4. DOMAIN o = 1 .. Len(o) /\ \A i \in DOMAIN o : o[i] \in owners[c]
      BY <3>1, <3>2, OrdersAreSeqs DEF Orders
    <3> QED
      BY <3>1, <3>3, <3>4
  <2>2. CASE NoneAvailable(c) \/ Succeed(c)
    BY <2>2 DEF NoneAvailable, Succeed, TypeOK, Link
  <2>3. CASE Fail(c)
    <3>1. order' = order /\ order[c][at[c]] \in bad
          /\ (at[c] = Len(order[c]) \/ UNCHANGED pc) /\ pc[c] = "trying"
      BY <2>3 DEF Fail
    <3> QED
      BY <3>1 DEF Link
  <2> QED
    BY <2>1, <2>2, <2>3 DEF Step
<1> QED
  BY <1>1, <1>2, <1>3, <1>4 DEF Link

LEMMA LinkAnswer ==
  ASSUME Link, Restored!TypeOK, NEW c \in Chunk, Answer(c)
  PROVE  Link'
<1>0. got \in [Chunk -> {"none", "data", "lost", "error"}]
  BY SameStart DEF Restored!TypeOK
<1>1. UNCHANGED vars /\ pc[c] \in {"read", "lost"} /\ got'[c] \in Outcomes(c)
  BY DEF Answer
<1>2. \A d \in Chunk : d # c => got'[d] = got[d]
  BY <1>0 DEF Answer, Chain!Read
<1>3. /\ got'[c] \in {"lost", "error"} => pc[c] = "lost"
      /\ got'[c] = "error" => order[c] # <<>> /\ order[c][Len(order[c])] \in Plain
  BY <1>1 DEF Outcomes
<1> QED
  BY <1>1, <1>2, <1>3 DEF Link, vars

\* All other instances of the chain, and of stages other than reading.
LEMMA OnwardKeepsGot ==
  ASSUME NEW c \in Chunk, Onward(c)
  PROVE  UNCHANGED got
<1>1. ~Chain!Read(c)
  BY DEF Onward, Chain!Read
<1> QED
  BY <1>1 DEF Onward, Chain!Step, Chain!Start, Chain!Fetch, Chain!Group, Chain!Parity, Chain!Join,
     Chain!Sort, Chain!Write, Chain!WriteError, Chain!Close, Chain!ReleaseInner,
     Chain!ReleaseJoin, Chain!ReleaseOuter

LEMMA LinkInd ==
  ASSUME Link, TypeOK, Restored!TypeOK, [StoresNext]_<<vars, chain>>
  PROVE  Link'
<1>1. ASSUME NEW c \in Chunk, Advance(c) PROVE Link'
  <2>1. CASE Ask(c)
    BY <2>1, LinkAsk DEF Ask, chain
  <2>2. CASE Answer(c)
    BY <2>2, LinkAnswer
  <2>3. CASE Onward(c)
    BY <2>3, OnwardKeepsGot DEF Onward, Link, vars
  <2> QED
    BY <1>1, <2>1, <2>2, <2>3 DEF Advance
<1>2. CASE Main
  <2>1. UNCHANGED got /\ UNCHANGED vars
    BY <1>2 DEF Main, Chain!Main, Chain!IndexError, Chain!ReceiveError, Chain!Finish
  <2> QED
    BY <2>1 DEF Link, vars
<1>3. CASE Decay
  <2>1. UNCHANGED <<got, pc, order, listed, owners>> /\ bad \subseteq bad'
    BY <1>3 DEF Decay, Worsen, chain
  <2> QED
    BY <2>1 DEF Link
<1>4. CASE UNCHANGED <<vars, chain>> \/ (Chain!Idle /\ UNCHANGED vars)
  BY <1>4 DEF Link, vars, chain, Chain!Idle, Chain!vars
<1> QED
  BY <1>1, <1>2, <1>3, <1>4 DEF StoresNext

\* The shards that the chain takes for lost had all their copies on failing stores:
\* where that is affordable, no group has more of them than parity makes up for.
LEMMA AllJoinable ==
  ASSUME Affordable, Link, TypeOK, LostOnlyIfAllFail, Restored!TypeOK, NEW h \in Restored!Heads
  PROVE  Restored!Joinable(h)
<1> DEFINE g == Restored!Shards(h)
           out == {c \in g : listed[c] \subseteq bad}
<1>1. g \in Groups /\ g \subseteq Chunk
  <2>1. Groups = {Restored!Shards(x) : x \in Restored!Heads}
    BY StoreRestoreAssumption DEF Chain!Shards, Restored!Shards, Chain!Heads, Restored!Heads,
       Chain!Num, Restored!Num, Chain!HeadOf, Restored!HeadOf
  <2> QED
    BY <2>1, MultiReaderAssumption
<1>2. IsFiniteSet(out) /\ Cardinality(out) <= NParity
  <2>1. IsFiniteSet(g)
    BY <1>1, MultiReaderAssumption
  <2>2. out \subseteq g
    OBVIOUS
  <2> QED
    BY <1>1, <2>1, <2>2, FS_Subset DEF Affordable
<1>3. ASSUME NEW c \in g PROVE got[c] # "error"
  <2> SUFFICES ASSUME got[c] = "error" PROVE FALSE
    OBVIOUS
  <2> DEFINE s == order[c][Len(order[c])]
  <2>1. c \in Chunk /\ pc[c] = "lost" /\ order[c] # <<>> /\ s \in Plain
    BY <1>1 DEF Link
  <2>2. order[c] \in Seq(Store)
    BY <2>1 DEF TypeOK
  <2>3. Len(order[c]) \in 1 .. Len(order[c])
    BY <2>1, <2>2
  <2>4. s \in listed[c]
    BY <2>1, <2>3 DEF Link
  <2>5. listed[c] \subseteq bad
    BY <2>1 DEF LostOnlyIfAllFail
  <2> QED
    BY <2>1, <2>4, <2>5 DEF Affordable
<1>4. {c \in g : got[c] = "lost"} \subseteq out
  BY <1>1 DEF Link, LostOnlyIfAllFail
<1>5. Cardinality({c \in g : got[c] = "lost"}) <= NParity
  <2>1. Cardinality({c \in g : got[c] = "lost"}) <= Cardinality(out)
    BY <1>2, <1>4, FS_Subset
  <2>2. /\ IsFiniteSet({c \in g : got[c] = "lost"})
        /\ Cardinality({c \in g : got[c] = "lost"}) \in Nat /\ Cardinality(out) \in Nat
    BY <1>2, <1>4, FS_Subset, FS_CardinalityType
  <2> QED
    BY <1>2, <2>1, <2>2, MultiReaderAssumption
<1>6. Restored!Cardinality({c \in g : got[c] = "lost"}) = Cardinality({c \in g : got[c] = "lost"})
  BY DEF Restored!Cardinality, Cardinality
<1> QED
  BY <1>3, <1>5, <1>6 DEF Restored!Joinable

LEMMA WholeIfAffordable ==
  ASSUME Link, TypeOK, LostOnlyIfAllFail, Restored!TypeOK, Restored!ErrorJustified,
         Restored!NoErrorMeansWhole, Restored!OutputInOrder
  PROVE  RestoredIfAffordable
<1> SUFFICES ASSUME Affordable, ~broken, ~malformed, lines % NShards = 0, ret # "none"
             PROVE  /\ ret \in {"nil", "unreturned"}
                    /\ Len(written) = Chain!Blocks /\ Chain!InOrder(written)
  BY DEF RestoredIfAffordable
<1>1. ret # "error"
  BY AllJoinable DEF Restored!ErrorJustified
<1>2. ret \in {"nil", "unreturned"}
  BY <1>1 DEF Restored!ErrorJustified, Restored!TypeOK
<1>3. Len(written) = Restored!Blocks /\ Restored!InOrder(written)
  BY <1>2 DEF Restored!NoErrorMeansWhole, Restored!OutputInOrder
<1> QED
  BY <1>2, <1>3 DEF Restored!Blocks, Chain!Blocks, Restored!InOrder, Chain!InOrder

\* From the stores to the output: whatever fails when, as long as parity can make up
\* for it in each group, a restore ends with all of the seed.
THEOREM RestoredFromStores ==
  ASSUME ~OneVariable
  PROVE  StoresSpec => []RestoredIfAffordable
<1>1. Spec => []TypeOK /\ []LostOnlyIfAllFail
  <2>1. IndInv => TypeOK /\ LostOnlyIfAllFail
    BY DEF IndInv
  <2> QED
    BY <2>1, Invariance, PTL
<1>2. [](Restored!TypeOK) /\ []TypeOK /\ Link /\ [][StoresNext]_<<vars, chain>> => []Link
  BY LinkInd, PTL
<1> QED
  BY <1>1, <1>2, LinkStart, BothParts, ChainProved, WholeIfAffordable, PTL DEF StoresSpec

\* README.md:140's case of it: whichever store it is, one that fails is affordable
\* where copies are spread as stripe spreads them, if it says that it has nothing.
THEOREM OneStoreIsAffordable ==
  ASSUME ~OneVariable
  PROVE  StoresSpec => []OneStoreAffordable
<1>1. TypeOK => OneStoreAffordable
  <2> SUFFICES ASSUME TypeOK, Cardinality(bad) <= 1, NEW g \in Groups
               PROVE  Cardinality({c \in g : listed[c] \subseteq bad}) <= NParity
    BY DEF OneStoreAffordable, Affordable
  <2>1. PICK s \in Store : bad \subseteq {s}
    BY OneBad
  <2> DEFINE out == {c \in g : listed[c] \subseteq bad}
             only == OnlyOn(listed, g, s)
  <2>2. out \subseteq only /\ IsFiniteSet(only) /\ Cardinality(only) <= NParity
    <3>1. IsFiniteSet(g) /\ Cardinality(only) <= NParity
      BY MultiReaderAssumption DEF TypeOK
    <3>2. only \subseteq g /\ out \subseteq only
      BY <2>1 DEF OnlyOn
    <3> QED
      BY <3>1, <3>2, FS_Subset
  <2> HIDE DEF out, only
  <2>3. /\ Cardinality(out) <= Cardinality(only)
        /\ Cardinality(out) \in Nat /\ Cardinality(only) \in Nat
    BY <2>2, FS_Subset, FS_CardinalityType
  <2>4. Cardinality(out) <= NParity
    BY <2>2, <2>3, MultiReaderAssumption
  <2> QED
    BY <2>4 DEF out
<1>2. IndInv => TypeOK
  BY DEF IndInv
<1> QED
  BY <1>1, <1>2, Invariance, BothParts, PTL

\* The composition is a restore, and with it what a restore promises of its output;
\* and it reads as MultiReader does.
THEOREM PartsKept ==
  StoresSpec => Spec /\ Restored!Spec /\ Restored!ImplementsOrderedOutput
<1>1. Restored!Spec => Restored!ImplementsOrderedOutput
  BY Restored!Refines, StoreRestoreAssumption
<1> QED
  BY <1>1, BothParts

LEMMA SameLeft == Restored!Shrinks <=> Chain!Shrinks
<1>1. Restored!Left = Chain!Left
  BY DEF Chain!Left, Restored!Left, Chain!StagesLeft, Restored!StagesLeft,
         Chain!OuterLeft, Restored!OuterLeft, Chain!InnerLeft, Restored!InnerLeft,
         Chain!JoiningLeft, Restored!JoiningLeft, Chain!BlocksLeft, Restored!BlocksLeft,
         Chain!ReturnsLeft, Restored!ReturnsLeft, Chain!Rank, Restored!Rank,
         Chain!Early, Restored!Early, Chain!Num, Restored!Num, Chain!Heads,
         Restored!Heads, Chain!HeadOf, Restored!HeadOf
<1>2. Restored!Left' = Chain!Left'
  BY DEF Chain!Left, Restored!Left, Chain!StagesLeft, Restored!StagesLeft,
         Chain!OuterLeft, Restored!OuterLeft, Chain!InnerLeft, Restored!InnerLeft,
         Chain!JoiningLeft, Restored!JoiningLeft, Chain!BlocksLeft, Restored!BlocksLeft,
         Chain!ReturnsLeft, Restored!ReturnsLeft, Chain!Rank, Restored!Rank,
         Chain!Early, Restored!Early, Chain!Num, Restored!Num, Chain!Heads,
         Restored!Heads, Chain!HeadOf, Restored!HeadOf
<1> QED
  BY <1>1, <1>2 DEF Restored!Shrinks, Chain!Shrinks

\* Nor do reads and chain keep each other going: each step takes something off what
\* is left of the one or the other, and adds nothing to either.
THEOREM StoresOnlySoManySteps == StoresSpec => [][StoresShrink]_<<vars, chain>>
<1>1. Restored!Spec => [][Restored!Shrinks]_(Restored!vars)
  BY Restored!OnlySoManySteps, StoreRestoreAssumption
<1>2. [Shrinks]_vars /\ [Restored!Shrinks]_(Restored!vars) => [StoresShrink]_<<vars, chain>>
  <2>1. UNCHANGED Restored!vars <=> UNCHANGED chain
    BY DEF Restored!vars, chain
  <2>2. SUFFICES ASSUME [Shrinks]_vars, [Restored!Shrinks]_(Restored!vars),
                        ~UNCHANGED <<vars, chain>>
                 PROVE  StoresShrink
    OBVIOUS
  <2>3. /\ Shrinks \/ UNCHANGED vars
        /\ Chain!Shrinks \/ UNCHANGED chain
        /\ ~UNCHANGED vars \/ ~UNCHANGED chain
    BY <2>1, <2>2, SameLeft
  <2> QED
    BY <2>3 DEF StoresShrink
<1> QED
  BY <1>1, <1>2, BothParts, OnlySoManySteps, PTL DEF StoresSpec
=============================================================================
