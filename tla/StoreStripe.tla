----------------------------- MODULE StoreStripe -----------------------------
(***************************************************************************)
(* The copying of groups of chunks to stores: stripeP of                   *)
(* stores/stripe/stripe.go with the registry of copies, the quotas and the *)
(* concurrent copy procs it hands to procs.NewConcur.  Many groups are     *)
(* under way at a time, as many as the backlog in front lets through, and  *)
(* may have chunks in common.                                              *)
(*                                                                         *)
(* The striper is mincopies(Min ...): what Stripe.tla shows of S.Stripe    *)
(* without exclusivity is what Plan assumes of it.  Chunks have size 1.    *)
(***************************************************************************)
EXTENDS Placement

CONSTANTS Group,    \* groups of chunks, one call of Procs each
          Hash,     \* the chunks, by content
          Members,  \* the distinct chunks of each group
          Store,
          Listings, \* what the stores' listings may show: their chunks' owners
          Quota,    \* bytes each store may take
          Min,      \* copies to have of each chunk
          Slots,    \* groups under way at a time
          Faults,   \* may a copy fail
          Nil

ASSUME StoreStripeAssumption ==
  /\ IsFiniteSet(Hash) /\ IsFiniteSet(Store) /\ Min \in Nat /\ Slots \in Nat
  /\ Members \in [Group -> SUBSET Hash]
  /\ Listings \subseteq [Hash -> SUBSET Store]
  /\ Quota \in [Store -> Nat]
  /\ Faults \in BOOLEAN /\ Nil \notin Group

VARIABLES pc,      \* how far the call for each group is
          todo,    \* chunks of the group whose copies are still to be locked
          mu,      \* copies.List.Mu: which group has it
          owners,  \* copies.Reg: the stores that hold each chunk
          use,     \* quota.Man: bytes each store holds
          alive,   \* the stores quota.Man still knows
          dests,   \* stores the group was striped over
          jobs,    \* copies to make: group, chunk, store
          made,    \* those made, before AddUse
          err      \* some copy for the group failed

vars == <<pc, todo, mu, owners, use, alive, dests, jobs, made, err>>

Jobs == Group \X Hash \X Store

\* Bytes held by a store that holds the chunks it owns.
Held(own, s) == Cardinality({h \in Hash : s \in own[h]})

\* The registry and the quotas are filled from the stores' listings (New);
\* a store that is full already is dropped.
Init == /\ owners \in Listings
        /\ use = [s \in Store |-> Held(owners, s)]
        /\ alive = {s \in Store : Held(owners, s) = 0 \/ Held(owners, s) < Quota[s]}
        /\ pc = [g \in Group |-> "waiting"]
        /\ todo = Members
        /\ mu = [h \in Hash |-> Nil]
        /\ dests = [g \in Group |-> {}]
        /\ jobs = {} /\ made = {}
        /\ err = [g \in Group |-> FALSE]

-----------------------------------------------------------------------------
\* Mutation: the slot of a group that has ended is not released.
NotReleased == {g \in Group : pc[g] \in {"locking", "copying", "ended"}}

UnderWay == {g \in Group : pc[g] \in {"locking", "copying"}}

\* Procs is called.
Begin(g) ==
  /\ pc[g] = "waiting" /\ Cardinality(UnderWay) < Slots
  /\ pc' = [pc EXCEPT ![g] = "locking"]
  /\ UNCHANGED <<todo, mu, owners, use, alive, dests, jobs, made, err>>

\* A chunk of the group has come with an error: Procs returns it before
\* anything is locked.
Refuse(g) ==
  /\ Faults /\ pc[g] = "waiting" /\ Cardinality(UnderWay) < Slots
  /\ pc' = [pc EXCEPT ![g] = "failed"]
  /\ UNCHANGED <<todo, mu, owners, use, alive, dests, jobs, made, err>>

\* The loop over the chunks, in any order (a map's), up to copies.Mu.Lock.
\* The owners read there are those of Plan: they change only under the lock.
Lock(g, h) ==
  /\ pc[g] = "locking" /\ h \in todo[g]
  /\ mu[h] = Nil
  /\ mu' = [mu EXCEPT ![h] = g]
  /\ todo' = [todo EXCEPT ![g] = @ \ {h}]
  /\ UNCHANGED <<pc, owners, use, alive, dests, jobs, made, err>>

\* Mutation: room is checked for nothing.
RoomForNothing(bytes) == {s \in alive : use[s] <= Quota[s]}

\* quota.Man.Resources.
Resources(bytes) == {s \in alive : use[s] + bytes <= Quota[s]}

\* What S.Stripe makes of the owners with stores D: see MakesCopyPlan in Stripe.
Plans(g, D) == CopyPlans(Members[g], owners, D, Min)

\* Resources, Stripe and the making of the copy procs.
Plan(g) ==
  /\ pc[g] = "locking" /\ todo[g] = {}
  /\ LET D == Resources(Cardinality(Members[g])) IN
     /\ Cardinality(D) >= Min
     /\ dests' = [dests EXCEPT ![g] = D]
     /\ \E f \in Plans(g, D) :
          jobs' = jobs \cup {j \in Jobs : j[1] = g /\ j[2] \in Members[g] /\ j[3] \in f[j[2]]}
  /\ pc' = [pc EXCEPT ![g] = "copying"]
  /\ UNCHANGED <<todo, mu, owners, use, alive, made, err>>

\* Stripe returns ErrShort, and Procs returns it: nothing unlocks the copies.
PlanShort(g) ==
  /\ pc[g] = "locking" /\ todo[g] = {}
  /\ Cardinality(Resources(Cardinality(Members[g]))) < Min
  /\ pc' = [pc EXCEPT ![g] = "failed"]
  /\ UNCHANGED <<todo, mu, owners, use, alive, dests, jobs, made, err>>

\* A copy proc has run; OnEnd registers the copy ...
Copy(g, h, s) ==
  /\ <<g, h, s>> \in jobs \ made
  /\ owners' = [owners EXCEPT ![h] = @ \cup {s}]
  /\ made' = made \cup {<<g, h, s>>}
  /\ UNCHANGED <<pc, todo, mu, use, alive, dests, jobs, err>>

\* Mutation: wg.Done is not left to the end, and comes before AddUse.
DoneBeforeUse(g, h, s) ==
  /\ <<g, h, s>> \in made /\ <<g, h, s>> \in jobs
  /\ jobs' = jobs \ {<<g, h, s>>}
  /\ UNCHANGED <<pc, todo, mu, owners, use, alive, dests, made, err>>

\* ... then accounts for it (quota.Man.AddUse), and wg.Done.
Account(g, h, s) ==
  /\ <<g, h, s>> \in made
  /\ IF s \in alive
     THEN /\ use' = [use EXCEPT ![s] = @ + 1]
          /\ alive' = IF use[s] + 1 >= Quota[s] THEN alive \ {s} ELSE alive
     ELSE UNCHANGED <<use, alive>>
  /\ jobs' = jobs \ {<<g, h, s>>} /\ made' = made \ {<<g, h, s>>}
  /\ UNCHANGED <<pc, todo, mu, owners, dests, err>>

\* Mutation: OnEnd does not look at the error.
CopyErrorIgnored(g, h, s) ==
  /\ Faults /\ <<g, h, s>> \in jobs \ made
  /\ jobs' = jobs \ {<<g, h, s>>}
  /\ UNCHANGED <<pc, todo, mu, owners, use, alive, dests, made, err>>

\* A copy proc fails: OnEnd drops the store from the quotas, and wg.Done.
CopyError(g, h, s) ==
  /\ Faults /\ <<g, h, s>> \in jobs \ made
  /\ alive' = alive \ {s}
  /\ jobs' = jobs \ {<<g, h, s>>}
  /\ err' = [err EXCEPT ![g] = TRUE]
  /\ UNCHANGED <<pc, todo, mu, owners, use, dests, made>>

Pending(g, h) == {s \in Store : <<g, h, s>> \in jobs}

\* Mutation: copies are unlocked as soon as the copy procs are made.
UnlockEarly(g, h) ==
  /\ pc[g] \in {"copying", "ended"} /\ mu[h] = g
  /\ mu' = [mu EXCEPT ![h] = Nil]
  /\ UNCHANGED <<pc, todo, owners, use, alive, dests, jobs, made, err>>

\* The goroutine that unlocks the copies of a chunk after its last wg.Done.
Unlock(g, h) ==
  /\ pc[g] \in {"copying", "ended"} /\ mu[h] = g /\ Pending(g, h) = {}
  /\ mu' = [mu EXCEPT ![h] = Nil]
  /\ UNCHANGED <<pc, todo, owners, use, alive, dests, jobs, made, err>>

\* concurProc closes its output when every copy proc has ended.
End(g) ==
  /\ pc[g] = "copying" /\ \A h \in Members[g] : Pending(g, h) = {}
  /\ pc' = [pc EXCEPT ![g] = "ended"]
  /\ UNCHANGED <<todo, mu, owners, use, alive, dests, jobs, made, err>>

Call(g) == \/ Begin(g) \/ Refuse(g) \/ Plan(g) \/ PlanShort(g) \/ End(g)
           \/ \E h \in Hash : Lock(g, h)

CopyProc(g, h, s) == Copy(g, h, s) \/ Account(g, h, s) \/ CopyError(g, h, s)

\* Every group is through, or the program has an error to end with.
Over == \/ \A g \in Group : pc[g] = "ended"
        \/ \E g \in Group : pc[g] = "failed" \/ err[g]

Returned == Over /\ UNCHANGED vars

Next == \/ \E g \in Group : \/ Call(g)
                            \/ \E h \in Hash : \/ Unlock(g, h)
                                               \/ \E s \in Store : CopyProc(g, h, s)
        \/ Returned

Spec == Init /\ [][Next]_vars

\* Goroutines go on, copies end; a mutex goes to someone who waits for it,
\* and to everyone in the end.
Fairness ==
  \A g \in Group :
    /\ WF_vars(Begin(g) \/ Refuse(g) \/ Plan(g) \/ PlanShort(g) \/ End(g))
    /\ \A h \in Hash : /\ SF_vars(Lock(g, h)) /\ WF_vars(Unlock(g, h))
                       /\ \A s \in Store : WF_vars(CopyProc(g, h, s))

FairSpec == Spec /\ Fairness
-----------------------------------------------------------------------------
\* Types.
TypeOK ==
  /\ pc \in [Group -> {"waiting", "locking", "copying", "ended", "failed"}]
  /\ todo \in [Group -> SUBSET Hash]
  /\ mu \in [Hash -> Group \cup {Nil}]
  /\ owners \in [Hash -> SUBSET Store]
  /\ use \in [Store -> Nat]
  /\ alive \in SUBSET Store
  /\ dests \in [Group -> SUBSET Store]
  /\ jobs \in SUBSET Jobs /\ made \in SUBSET jobs
  /\ err \in [Group -> BOOLEAN]

\* The copies that a chunk has or is about to have in the eyes of a group.
Expected(g, h) == (owners[h] \cup Pending(g, h)) \cap dests[g]

\* A plan stays right until it is carried out, whatever other groups do with
\* the same chunks in the meantime: no copy is made that exists, and none that
\* the chunk has no need of.
NoNeedlessCopy ==
  \A g \in Group : \A h \in Members[g] :
    Pending(g, h) # {} =>
      /\ \A s \in Pending(g, h) : <<g, h, s>> \notin made => s \notin owners[h]
      /\ Cardinality(Expected(g, h)) <= Min

\* A group that ends without an error has Min copies of each of its chunks,
\* its own or others', on stores that had room for it.
EndedIsCopied ==
  \A g \in Group :
    pc[g] = "ended" /\ ~err[g] =>
      \A h \in Members[g] : Cardinality(owners[h] \cap dests[g]) >= Min

\* What the two follow from.  A group has the lock of each chunk that it is
\* done with locking.
LockInv ==
  \A g \in Group :
    /\ todo[g] \subseteq Members[g]
    /\ pc[g] = "waiting" => todo[g] = Members[g]
    /\ pc[g] = "locking" => \A h \in Members[g] \ todo[g] : mu[h] = g

\* A copy to make is made under the lock of its chunk.
JobInv ==
  \A g \in Group, h \in Hash, s \in Store :
    <<g, h, s>> \in jobs =>
      /\ pc[g] = "copying" /\ h \in Members[g] /\ mu[h] = g /\ s \in dests[g]
      /\ s \in owners[h] <=> <<g, h, s>> \in made

\* The copies of a chunk of a group that has planned are as many as it takes.
CopiesInv ==
  \A g \in Group :
    pc[g] \in {"copying", "ended"} =>
      \A h \in Members[g] :
        /\ ~err[g] => Cardinality(Expected(g, h)) >= Min
        /\ Pending(g, h) # {} => Cardinality(Expected(g, h)) <= Min

\* The conjunction, which every step preserves: copies are read, planned and
\* made under one and the same lock (stripe.go:79 to 121).
IndInv == TypeOK /\ LockInv /\ JobInv /\ CopiesInv

\* Two groups that plan at a time do not see each other's copies, so that a
\* store may be filled past its quota; by no more, though, than the copies that
\* groups with room on it are to make of chunks that are not the planner's,
\* for as many groups as may be under way with it.
Unseen(s) == {Cardinality(Members[p[1]] \ Members[p[2]]) :
                p \in {g \in Group : Cardinality(Members[g]) <= Quota[s]} \X Group}

Unmade(s) == {j \in jobs \ made : j[3] = s}

QuotaKept ==
  \A s \in Store :
    Unmade(s) # {} =>
      \E n \in Unseen(s) :
        /\ \A k \in Unseen(s) : k <= n
        /\ Held(owners, s) + Cardinality(Unmade(s)) <= Quota[s] + (Slots - 1) * n

\* Whoever has a lock has been under way, and is done with locking that chunk.
HolderInv ==
  \A h \in Hash : mu[h] # Nil =>
    /\ pc[mu[h]] # "waiting" /\ h \in Members[mu[h]] \ todo[mu[h]]

\* Groups that can be under way at a time and each wait for a chunk that another
\* of them has, while it waits for another chunk.
Ring(G) ==
  \E next \in [G -> G], want \in [G -> Hash] :
    \A g \in G : /\ next[g] # g
                 /\ want[g] \in Members[g] \cap Members[next[g]]
                 /\ want[next[g]] # want[g]

NoRing ==
  \A G \in SUBSET Group :
    G # {} /\ IsFiniteSet(G) /\ Cardinality(G) <= Slots => ~Ring(G)

\* What the goroutines of a group wait for: a slot, a lock of another group.
CanMove(g) ==
  \/ pc[g] = "waiting" /\ Cardinality(UnderWay) < Slots
  \/ /\ pc[g] = "locking"
     /\ \/ \E h \in todo[g] : mu[h] = Nil
        \/ /\ todo[g] = {}
           /\ LET D == Resources(Cardinality(Members[g]))
              IN  Cardinality(D) >= Min => Plans(g, D) # {}
  \/ pc[g] = "copying"
  \/ pc[g] = "ended" /\ \E h \in Hash : mu[h] = g

\* Unless an error ends the program, some group gets on until all have ended.
NeverStuck == Over \/ \E g \in Group : CanMove(g)

\* What is left to do: stages of groups, chunks to lock, locks to give back,
\* copies to account for, copies to make.
Stage == [waiting |-> 0, locking |-> 1, copying |-> 2, ended |-> 3, failed |-> 3]

StagesLeft == {x \in Group \X (1 .. 3) : x[2] > Stage[pc[x[1]]]}
TodoLeft   == {x \in Group \X Hash : x[2] \in todo[x[1]]}
LocksLeft  == {x \in Group \X Hash : x[2] \in todo[x[1]] \/ mu[x[2]] = x[1]}
JobsLeft   == {j \in Jobs : pc[j[1]] \in {"waiting", "locking"} \/ j \in jobs}
UnmadeLeft == {j \in Jobs : pc[j[1]] \in {"waiting", "locking"} \/ j \in jobs \ made}

Left == <<StagesLeft, TodoLeft, LocksLeft, JobsLeft, UnmadeLeft>>

\* A step takes something off what is left and adds nothing.
Shrinks == Left' # Left /\ \A k \in 1 .. 5 : Left'[k] \subseteq Left[k]

\* Every call of Procs and every copy comes to its end, unless an error ends
\* the program.
AllReturn == <>Over
=============================================================================
