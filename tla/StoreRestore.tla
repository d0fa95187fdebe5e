---------------------------- MODULE StoreRestore ----------------------------
(***************************************************************************)
(* A restore from stores that begin to fail: MultiReader as the read of    *)
(* Restore.  An instance of the chain that has its slots asks one store    *)
(* after the other for the chunk of its line; what comes of it goes on to  *)
(* uchecksum, group and parity (procs/parity.go:133-149).  What stores     *)
(* give is whole: of files that are not, see Resume.                       *)
(***************************************************************************)
EXTENDS MultiReader

CONSTANTS Nil, MaxLines, Counts, NShards, Outer, Inner, Faults,  \* see Restore
          Plain   \* stores whose failing reads may not say that data is missing

VARIABLES lines, malformed, stage, got, outer, inner, growing, joining, series,
          pending, written, broken, errs, ret

chain == <<lines, malformed, stage, got, outer, inner, growing, joining, series,
           pending, written, broken, errs, ret>>

\* stage is Restore's pc; all else has the same name in both.
Chain == INSTANCE Restore WITH pc <- stage

\* A chunk is that of a line; lines with one content are listed alike.
ASSUME StoreRestoreAssumption ==
  /\ MaxLines \in Nat /\ Counts \subseteq 0 .. MaxLines
  /\ NShards \in Nat \ {0} /\ NParity \in 0 .. NShards
  /\ Outer \in Nat \ {0} /\ Inner \in Nat \ {0}
  /\ {"lost", "error"} \subseteq Faults /\ Faults \subseteq {"lost", "error", "write", "index"}
  /\ Nil \notin Nat
  /\ Chunk = 0 .. MaxLines - 1
  /\ Groups = {Chain!Shards(h) : h \in Chain!Heads}
  /\ Plain \subseteq Store

StoresInit == Init /\ Chain!Init

-----------------------------------------------------------------------------
\* The cascade of a read.
Ask(c) == stage[c] = "reading" /\ Step(c) /\ UNCHANGED chain

\* Mutation: that there is nobody to ask is an error like others.
OutcomesUnlisted(c) ==
  CASE pc[c] = "read" -> {"data"}
    [] pc[c] = "lost" /\ order[c] = <<>> -> {"error"}
    [] pc[c] = "lost" /\ order[c] # <<>> ->
         {"lost"} \cup (IF order[c][Len(order[c])] \in Plain THEN {"error"} ELSE {})

\* What the chain is told: the data; that nobody has it; or the error of the last
\* store asked.  rclone calls every failure missing data, cp, dd and scp only one
\* of a file that is not there.
Outcomes(c) ==
  CASE pc[c] = "read" -> {"data"}
    [] pc[c] = "lost" /\ order[c] = <<>> -> {"lost"}
    [] pc[c] = "lost" /\ order[c] # <<>> ->
         {"lost"} \cup (IF order[c][Len(order[c])] \in Plain THEN {"error"} ELSE {})

\* The end of the read, for the chain.
Answer(c) ==
  /\ pc[c] \in {"read", "lost"}
  /\ Chain!Read(c) /\ got'[c] \in Outcomes(c)
  /\ UNCHANGED vars

\* The rest of the chain.
Onward(c) == stage[c] # "reading" /\ Chain!Step(c) /\ UNCHANGED vars

Advance(c) == ret = "none" /\ (Ask(c) \/ Answer(c) \/ Onward(c))
Main       == ret = "none" /\ Chain!Main /\ UNCHANGED vars
Decay      == ret = "none" /\ (\E s \in Store : Worsen(s)) /\ UNCHANGED chain

StoresNext == \/ \E c \in Chunk : Advance(c)
              \/ Main \/ Decay
              \/ Chain!Idle /\ UNCHANGED vars

StoresSpec == StoresInit /\ [][StoresNext]_<<vars, chain>>

\* As for Restore: goroutines are scheduled, and a store answers or fails.
StoresFairSpec == /\ StoresSpec
                  /\ \A c \in Chunk : WF_<<vars, chain>>(Advance(c))
                  /\ WF_<<vars, chain>>(Main)

-----------------------------------------------------------------------------
\* What redundancy covers: of the shards of a group that have all their copies on
\* failing stores there are as many at most as parity makes up for, and none of
\* these stores fails in a way that does not say so.
Affordable ==
  /\ \A g \in Groups : Cardinality({c \in g : listed[c] \subseteq bad}) <= NParity
  /\ \A c \in Chunk : listed[c] \subseteq bad => listed[c] \cap Plain = {}

\* What parity, group and stripe are for (README.md:136-140), from the stores to the
\* output: as long as the failures are affordable, whatever the interleaving of
\* reads, failures and groups, the restore of a whole index succeeds with all of
\* the seed, or with ErrUnreturnedSlots and all of it.
RestoredIfAffordable ==
  Affordable /\ ~broken /\ ~malformed /\ lines % NShards = 0 /\ ret # "none" =>
    /\ ret \in {"nil", "unreturned"}
    /\ Len(written) = Chain!Blocks /\ Chain!InOrder(written)

\* Restores end, however many stores fail.
RestoreEnds == <>(ret # "none")

\* One failing store is, whichever it is (README.md:140).
OneStoreAffordable == Cardinality(bad) <= 1 /\ bad \cap Plain = {} => Affordable

\* What is left of the reads and of the chain.
StoresShrink ==
  \/ Shrinks /\ (Chain!Shrinks \/ UNCHANGED chain)
  \/ Chain!Shrinks /\ UNCHANGED vars

\* What the chain has been told of a shard is what its read has come to.
Link ==
  \A c \in Chunk :
    /\ owners[c] \subseteq listed[c]
    /\ pc[c] = "new" => order[c] = <<>>
    /\ \A i \in 1 .. Len(order[c]) : order[c][i] \in listed[c]
    /\ pc[c] = "lost" /\ order[c] # <<>> => order[c][Len(order[c])] \in bad
    /\ got[c] \in {"lost", "error"} => pc[c] = "lost"
    /\ got[c] = "error" => order[c] # <<>> /\ order[c][Len(order[c])] \in Plain
=============================================================================
