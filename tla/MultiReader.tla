----------------------------- MODULE MultiReader -----------------------------
(***************************************************************************)
(* stores/multireader.go: a chunk is read from the stores that are known   *)
(* to own it, in random order, until one gives it (procs/cascade.go).  A   *)
(* store that fails is removed from the registry of copies, for all        *)
(* chunks, so that others do not try it again.  Many chunks are read at a  *)
(* time, and stores begin to fail at any time.                             *)
(*                                                                         *)
(* What is removed is the variable cp of the loop that makes the cascade,  *)
(* looked at when the read has ended.  Before Go 1.22 all iterations of a  *)
(* loop share one such variable, which then is the last store of the       *)
(* cascade; OneVariable says if the program is built that way.             *)
(***************************************************************************)
EXTENDS Placement, Sequences

CONSTANTS Chunk, Store,
          Listings,    \* where the copies may be: functions to sets of stores
          Groups,      \* sets of chunks that are the shards of one block
          NParity,     \* how many shards of a group may be lost
          MaxBad,      \* bound on the stores that begin to fail
          OneVariable  \* the iterations of a loop share its variable

\* Whatever a store alone has of a group, parity makes up for: see LossCovered in
\* Stripe.
ASSUME MultiReaderAssumption ==
  /\ IsFiniteSet(Store) /\ Store # {} /\ MaxBad \in Nat /\ OneVariable \in BOOLEAN
  /\ NParity \in Nat
  /\ \A g \in Groups : g \subseteq Chunk /\ IsFiniteSet(g)
  /\ \A f \in Listings :
       /\ f \in [Chunk -> SUBSET Store]
       /\ \A g \in Groups : \A s \in Store :
            Cardinality(OnlyOn(f, g, s)) <= NParity

VARIABLES listed,  \* what the stores listed when the reader was made
          owners,  \* mrd.reg
          pc,      \* how far the read of each chunk is
          order,   \* its cascade
          at,      \* the store of the cascade it has got to
          bad      \* stores reads of which may fail

vars == <<listed, owners, pc, order, at, bad>>

\* NewMultiReader.
Init == /\ listed \in Listings
        /\ owners = listed
        /\ pc = [c \in Chunk |-> "new"]
        /\ order = [c \in Chunk |-> <<>>]
        /\ at = [c \in Chunk |-> 1]
        /\ bad = {}

\* ShuffleCopiers.
Orders(S) == {o \in [1 .. Cardinality(S) -> S] : \A s \in S : \E i \in DOMAIN o : o[i] = s}

-----------------------------------------------------------------------------
\* mrd.Process.
Lookup(c) ==
  /\ pc[c] = "new" /\ owners[c] # {}
  /\ \E o \in Orders(owners[c]) : order' = [order EXCEPT ![c] = o]
  /\ pc' = [pc EXCEPT ![c] = "trying"]
  /\ UNCHANGED <<listed, owners, at, bad>>

\* Mutation: an empty cascade gives no result.
NoneAvailableSilently(c) == pc[c] = "new" /\ owners[c] = {} /\ UNCHANGED vars

NoneAvailable(c) ==
  /\ pc[c] = "new" /\ owners[c] = {}
  /\ pc' = [pc EXCEPT ![c] = "lost"]
  /\ UNCHANGED <<listed, owners, order, at, bad>>

Succeed(c) ==
  /\ pc[c] = "trying"
  /\ pc' = [pc EXCEPT ![c] = "read"]
  /\ UNCHANGED <<listed, owners, order, at, bad>>

\* The store that OnEnd removes after a failure.
Removed(c) == order[c][IF OneVariable THEN Len(order[c]) ELSE at[c]]

\* Mutation: the store is removed from the list of the chunk only.
RemoveOwnerOf(c) == [owners EXCEPT ![c] = @ \ {Removed(c)}]

\* Reg.RemoveOwner.
RemoveOwner(c) == [d \in Chunk |-> owners[d] \ {Removed(c)}]

\* Mutation: the cascade gives up at the first error.
FailAtOnce(c) ==
  /\ pc[c] = "trying" /\ order[c][at[c]] \in bad
  /\ owners' = RemoveOwner(c)
  /\ pc' = [pc EXCEPT ![c] = "lost"]
  /\ UNCHANGED <<listed, order, at, bad>>

\* Cascade.Process: OnEnd runs before the output is closed, so the store is
\* removed before the next one is tried.
Fail(c) ==
  /\ pc[c] = "trying" /\ order[c][at[c]] \in bad
  /\ owners' = RemoveOwner(c)
  /\ \/ at[c] < Len(order[c]) /\ at' = [at EXCEPT ![c] = @ + 1] /\ UNCHANGED pc
     \/ at[c] = Len(order[c]) /\ pc' = [pc EXCEPT ![c] = "lost"] /\ UNCHANGED at
  /\ UNCHANGED <<listed, order, bad>>

\* A store begins to fail.
Worsen(s) ==
  /\ s \notin bad /\ Cardinality(bad) < MaxBad
  /\ bad' = bad \cup {s}
  /\ UNCHANGED <<listed, owners, pc, order, at>>

Step(c) == Lookup(c) \/ NoneAvailable(c) \/ Succeed(c) \/ Fail(c)

Over == (\A c \in Chunk : pc[c] \in {"read", "lost"}) /\ UNCHANGED vars

Next == (\E c \in Chunk : Step(c)) \/ (\E s \in Store : Worsen(s)) \/ Over

Spec == Init /\ [][Next]_vars

-----------------------------------------------------------------------------
TypeOK ==
  /\ listed \in Listings
  /\ owners \in [Chunk -> SUBSET Store]
  /\ pc \in [Chunk -> {"new", "trying", "read", "lost"}]
  /\ order \in [Chunk -> Seq(Store)]
  /\ at \in [Chunk -> Nat]
  /\ \A c \in Chunk : pc[c] = "trying" => at[c] \in 1 .. Len(order[c])
  /\ bad \subseteq Store /\ Cardinality(bad) <= MaxBad

\* Only stores that fail have been taken out of the registry, and a read in
\* progress has all others before it.
RegistryInv ==
  \A c \in Chunk :
    /\ pc[c] = "new" => at[c] = 1
    /\ listed[c] \ owners[c] \subseteq bad
    /\ pc[c] = "trying" =>
         \A s \in listed[c] \ bad : \E i \in at[c] .. Len(order[c]) : order[c][i] = s

\* A chunk is only lost if all of the stores that had it fail: no error of one
\* store costs a copy on another.
LostOnlyIfAllFail == \A c \in Chunk : pc[c] = "lost" => listed[c] \subseteq bad

\* What holds of the registry and the cascades, with a variable for each
\* iteration: no failure costs a chunk a copy that works.
IndInv == TypeOK /\ RegistryInv /\ LostOnlyIfAllFail

\* While no more than one store fails, no group loses more shards than parity
\* makes up for (README.md:140, "we can afford to lose any one of them and still
\* be able to recompute original data").
OneStoreMayFail ==
  Cardinality(bad) <= 1 =>
    \A g \in Groups : Cardinality({c \in g : pc[c] = "lost"}) <= NParity

\* The stores that have failed the read of c.
Failed(c) == {order[c][i] : i \in 1 .. IF pc[c] = "lost" THEN Len(order[c]) ELSE at[c] - 1}

\* Once a read has found a store failing, no chunk looked up later tries it.
NotAskedAgain ==
  [][\A c, d \in Chunk : pc[c] = "new" /\ pc'[c] = "trying" =>
       \A i \in 1 .. Len(order'[c]) : order'[c][i] \notin Failed(d)]_vars

\* What is left of the reads, and of the stores that may begin to fail: chunks to
\* look up, chunks to get, places of the cascades.
LookupsLeft == {c \in Chunk : pc[c] = "new"}
ReadsLeft   == {c \in Chunk : pc[c] \in {"new", "trying"}}
TriesLeft   == {x \in Chunk \X (1 .. Cardinality(Store)) :
                  pc[x[1]] = "new" \/ (pc[x[1]] = "trying" /\ x[2] >= at[x[1]])}
GoodLeft    == Store \ bad

Left == <<LookupsLeft, ReadsLeft, TriesLeft, GoodLeft>>

\* A failure never sets a read back: whatever other reads take from the registry
\* meanwhile, each step takes something off what is left.
Shrinks == Left' # Left /\ \A k \in 1 .. 4 : Left'[k] \subseteq Left[k]
=============================================================================
