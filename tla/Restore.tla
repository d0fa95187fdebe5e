------------------------------- MODULE Restore -------------------------------
(***************************************************************************)
(* The proc chain of a restore (README.md, "Restore"):                     *)
(*                                                                         *)
(*   uindex | backlog Outer { backlog Inner multireader | cmd | uchecksum  *)
(*                            | group NShards | uparity | join }           *)
(*                                                                         *)
(* driven by procs.Process.  A chain instance runs for every line of the   *)
(* index, Outer at a time; the instance whose shard completes a group      *)
(* carries the group on, the others end with no output; join writes the    *)
(* blocks in order, which makes one instance write blocks that others have *)
(* brought.  A slot is given back after the output it guards is closed, so *)
(* whoever reads the output may be ahead of the slot.                      *)
(***************************************************************************)
EXTENDS SeriesSort, FiniteSets

CONSTANTS MaxLines,  \* bound on the lines of an index
          Counts,    \* the numbers of lines an index may have
          NShards,   \* shards in a group, parity included
          NParity,   \* how many of them may be missing
          Outer,     \* slots of the outer backlog
          Inner,     \* slots of the backlog around the reads
          Faults     \* what may fail: "lost", "error", "write", "index"

ASSUME RestoreAssumption ==
  /\ MaxLines \in Nat /\ Counts \subseteq 0 .. MaxLines
  /\ NShards \in Nat \ {0} /\ NParity \in 0 .. NShards
  /\ Outer \in Nat \ {0} /\ Inner \in Nat \ {0}
  /\ Faults \subseteq {"lost", "error", "write", "index"}
  /\ Nil \notin Nat

Num == 0 .. MaxLines - 1

VARIABLES lines,      \* lines of the index that can be read
          malformed,  \* they are followed by one that cannot
          pc,         \* how far the chain instance of each line is
          got,        \* what reading each shard gave
          outer,      \* instances that hold a slot of the outer backlog
          inner,      \* instances that hold a slot of the inner one
          growing,    \* group.growing: the shards that have come, by head
          joining,    \* instances that hold the slot of join's backlog
          series,     \* Sort.series
          pending,    \* what each instance still has to write, in order
          written,    \* the blocks written
          broken,     \* a write has failed
          errs,       \* chunks whose error is on its way to the end
          ret         \* what procs.Process returned

vars == <<lines, malformed, pc, got, outer, inner, growing, joining, series,
          pending, written, broken, errs, ret>>

Line == 0 .. lines - 1

\* group.build: head, and the shards that have it.  As numbers are given once,
\* a full group is all of them: too many or a gap are not met.
HeadOf(n)  == n \div NShards
Shards(h)  == {n \in Num : HeadOf(n) = h}
Heads      == {HeadOf(n) : n \in Num}

Init == /\ lines \in Counts
        /\ malformed \in IF "index" \in Faults THEN BOOLEAN ELSE {FALSE}
        /\ pc = [n \in Num |-> "index"]
        /\ got = [n \in Num |-> "none"]
        /\ outer = {} /\ inner = {} /\ joining = {}
        /\ growing = [h \in Heads |-> {}]
        /\ series = EmptySeries
        /\ pending = [n \in Num |-> <<>>]
        /\ written = <<>>
        /\ broken = FALSE
        /\ errs = {}
        /\ ret = "none"

To(n, s) == pc' = [pc EXCEPT ![n] = s]

-----------------------------------------------------------------------------
\* The chain's stage takes the lines in order and blocks in Slots.Take.
Start(n) ==
  /\ n < lines /\ pc[n] = "index" /\ \A m \in 0 .. n - 1 : pc[m] # "index"
  /\ Cardinality(outer) < Outer
  /\ outer' = outer \cup {n}
  /\ To(n, "started")
  /\ UNCHANGED <<lines, malformed, got, inner, growing, joining, series,
                 pending, written, broken, errs, ret>>

\* The scanner gives an error after the last good line.
IndexError ==
  /\ malformed /\ \A n \in Line : pc[n] # "index"
  /\ lines \notin errs
  /\ errs' = errs \cup {lines}
  /\ UNCHANGED <<lines, malformed, pc, got, outer, inner, growing, joining,
                 series, pending, written, broken, ret>>

Fetch(n) ==
  /\ pc[n] = "started" /\ Cardinality(inner) < Inner
  /\ inner' = inner \cup {n}
  /\ To(n, "reading")
  /\ UNCHANGED <<lines, malformed, got, outer, growing, joining, series,
                 pending, written, broken, errs, ret>>

\* What multireader, decryption and uchecksum make of a shard: its data, an
\* error that parity makes up for ("lost") or another.
Read(n) ==
  /\ pc[n] = "reading"
  /\ \E o \in {"data"} \cup (Faults \cap {"lost", "error"}) :
       got' = [got EXCEPT ![n] = o]
  /\ To(n, "read")
  /\ UNCHANGED <<lines, malformed, outer, inner, growing, joining, series,
                 pending, written, broken, errs, ret>>

\* Mutation: an error goes round the group, as it does round other procs.
GroupDataOnly(n) ==
  LET h == HeadOf(n)
      g == growing[h] \cup {n}
  IN  /\ pc[n] = "read"
      /\ \/ /\ got[n] = "data" /\ Cardinality(g) < NShards
            /\ growing' = [growing EXCEPT ![h] = g]
            /\ To(n, "closed") /\ UNCHANGED errs
         \/ /\ got[n] = "data" /\ Cardinality(g) = NShards
            /\ growing' = [growing EXCEPT ![h] = {}]
            /\ To(n, "grouped") /\ UNCHANGED errs
         \/ /\ got[n] # "data" /\ errs' = errs \cup {n}
            /\ To(n, "closed") /\ UNCHANGED growing
      /\ UNCHANGED <<lines, malformed, got, outer, inner, joining, series,
                     pending, written, broken, ret>>

\* group.Process, and ProcessErr, which only notes the error.
Group(n) ==
  LET h == HeadOf(n)
      g == growing[h] \cup {n}
  IN  /\ pc[n] = "read"
      /\ \/ /\ Cardinality(g) < NShards
            /\ growing' = [growing EXCEPT ![h] = g]
            /\ To(n, "closed")
         \/ /\ Cardinality(g) = NShards
            /\ growing' = [growing EXCEPT ![h] = {}]
            /\ To(n, "grouped")
      /\ UNCHANGED <<lines, malformed, got, outer, inner, joining, series,
                     pending, written, broken, errs, ret>>

\* parity.join: any other error is final, and so are too many lost shards.
Joinable(h) ==
  /\ \A n \in Shards(h) : got[n] # "error"
  /\ Cardinality({n \in Shards(h) : got[n] = "lost"}) <= NParity

Parity(n) ==
  /\ pc[n] = "grouped"
  /\ \/ Joinable(HeadOf(n)) /\ To(n, "joined") /\ UNCHANGED errs
     \/ ~Joinable(HeadOf(n)) /\ To(n, "closed") /\ errs' = errs \cup {n}
  /\ UNCHANGED <<lines, malformed, got, outer, inner, growing, joining, series,
                 pending, written, broken, ret>>

-----------------------------------------------------------------------------
\* Mutation: a join that is not behind a backlog.
JoinAtOnce(n) ==
  /\ pc[n] = "joined"
  /\ joining' = joining \cup {n}
  /\ To(n, "joining")
  /\ UNCHANGED <<lines, malformed, got, outer, inner, growing, series, pending,
                 written, broken, errs, ret>>

\* NewJoin: the slot of a backlog of one.
Join(n) ==
  /\ pc[n] = "joined" /\ joining = {}
  /\ joining' = {n}
  /\ To(n, "joining")
  /\ UNCHANGED <<lines, malformed, got, outer, inner, growing, series, pending,
                 written, broken, errs, ret>>

\* Mutation: gaps are dropped with the blocks behind them.
SortDropsGaps(n) ==
  LET s == Add(series, HeadOf(n), HeadOf(n))
  IN  /\ pc[n] = "joining"
      /\ pending' = [pending EXCEPT ![n] = Sorted(s)]
      /\ series' = Drop(s, SeriesLen(s))
      /\ To(n, "writing")
      /\ UNCHANGED <<lines, malformed, got, outer, inner, growing, joining,
                     written, broken, errs, ret>>

\* Sort.Process, under seriesMu.
Sort(n) ==
  LET s == Add(series, HeadOf(n), HeadOf(n))
  IN  /\ pc[n] = "joining"
      /\ pending' = [pending EXCEPT ![n] = Sorted(s)]
      /\ series' = Drop(s, Len(Sorted(s)))
      /\ To(n, "writing")
      /\ UNCHANGED <<lines, malformed, got, outer, inner, growing, joining,
                     written, broken, errs, ret>>

\* WriterTo.Process.
Write(n) ==
  /\ pc[n] = "writing" /\ pending[n] # <<>>
  /\ written' = Append(written, Head(pending[n]))
  /\ pending' = [pending EXCEPT ![n] = Tail(@)]
  /\ UNCHANGED <<lines, malformed, pc, got, outer, inner, growing, joining,
                 series, broken, errs, ret>>

\* Mutation: an error of the writer that is not passed on.
WriteErrorLost(n) ==
  /\ "write" \in Faults /\ pc[n] = "writing" /\ pending[n] # <<>>
  /\ broken' = TRUE
  /\ pending' = [pending EXCEPT ![n] = Tail(@)]
  /\ UNCHANGED <<lines, malformed, pc, got, outer, inner, growing, joining,
                 series, written, errs, ret>>

\* The chain goes on with the next block.
WriteError(n) ==
  /\ "write" \in Faults /\ pc[n] = "writing" /\ pending[n] # <<>>
  /\ broken' = TRUE
  /\ errs' = errs \cup {n}
  /\ pending' = [pending EXCEPT ![n] = Tail(@)]
  /\ UNCHANGED <<lines, malformed, pc, got, outer, inner, growing, joining,
                 series, written, ret>>

Close(n) ==
  /\ pc[n] = "writing" /\ pending[n] = <<>>
  /\ To(n, "closed")
  /\ UNCHANGED <<lines, malformed, got, outer, inner, growing, joining, series,
                 pending, written, broken, errs, ret>>

\* The deferred Slots.Release of the three backlogs: after close(out).
ReleaseInner(n) ==
  /\ n \in inner /\ pc[n] # "reading"
  /\ inner' = inner \ {n}
  /\ UNCHANGED <<lines, malformed, pc, got, outer, growing, joining, series,
                 pending, written, broken, errs, ret>>

ReleaseJoin(n) ==
  /\ n \in joining /\ pc[n] = "closed"
  /\ joining' = joining \ {n}
  /\ UNCHANGED <<lines, malformed, pc, got, outer, inner, growing, series,
                 pending, written, broken, errs, ret>>

\* Mutation: an instance keeps its slot until its group is complete.
ReleaseGroup(n) ==
  /\ n \in outer /\ pc[n] = "closed" /\ growing[HeadOf(n)] = {}
  /\ outer' = outer \ {n}
  /\ UNCHANGED <<lines, malformed, pc, got, inner, growing, joining, series,
                 pending, written, broken, errs, ret>>

ReleaseOuter(n) ==
  /\ n \in outer /\ pc[n] = "closed"
  /\ outer' = outer \ {n}
  /\ UNCHANGED <<lines, malformed, pc, got, inner, growing, joining, series,
                 pending, written, broken, errs, ret>>

-----------------------------------------------------------------------------
\* procs.Process returns the first error it meets.
ReceiveError ==
  /\ ret = "none" /\ errs # {}
  /\ ret' = "error"
  /\ UNCHANGED <<lines, malformed, pc, got, outer, inner, growing, joining,
                 series, pending, written, broken, errs>>

\* Everything has been received and closed.
Drained == ~malformed /\ errs = {} /\ \A n \in Line : pc[n] = "closed"

\* Finish of the procs of the chain: Group and Sort, then the slots.  They are
\* called at the same time and one of their errors is returned; as slots only
\* become free by now this is the same as looking at all of them at once.
Short == SeriesLen(series) > 0 \/ \E h \in Heads : growing[h] # {}

\* Mutation: Group.Finish has nothing to say.
FinishErrorsOfSort ==
  (IF SeriesLen(series) > 0 THEN {"short"} ELSE {}) \cup
  (IF inner \cup joining \cup outer # {} THEN {"unreturned"} ELSE {})

FinishErrors ==
  (IF Short THEN {"short"} ELSE {}) \cup
  (IF \/ inner # {}
      \/ joining # {} /\ SeriesLen(series) = 0
      \/ outer # {} /\ ~Short
   THEN {"unreturned"} ELSE {})

Finish ==
  /\ ret = "none" /\ Drained
  /\ ret' \in IF FinishErrors = {} THEN {"nil"} ELSE FinishErrors
  /\ UNCHANGED <<lines, malformed, pc, got, outer, inner, growing, joining,
                 series, pending, written, broken, errs>>

Step(n) == \/ Start(n) \/ Fetch(n) \/ Read(n) \/ Group(n) \/ Parity(n)
           \/ Join(n) \/ Sort(n) \/ Write(n) \/ WriteError(n) \/ Close(n)
           \/ ReleaseInner(n) \/ ReleaseJoin(n) \/ ReleaseOuter(n)

Main == IndexError \/ ReceiveError \/ Finish

\* The program has nothing left to do.
Idle == ret # "none" /\ UNCHANGED vars

\* procs.Process returns to main, and with main the goroutines end.
Next == \/ ret = "none" /\ ((\E n \in Num : Step(n)) \/ Main)
        \/ Idle

Spec == Init /\ [][Next]_vars

\* Goroutines are scheduled, reads end; blocked receivers of a channel are
\* served first come first served, and nobody takes a slot twice.
FairSpec == Spec /\ (\A n \in Num : WF_vars(Step(n))) /\ WF_vars(Main)

-----------------------------------------------------------------------------
Stages == {"index", "started", "reading", "read", "grouped", "joined",
           "joining", "writing", "closed"}

TypeOK ==
  /\ lines \in Counts /\ malformed \in BOOLEAN /\ broken \in BOOLEAN
  /\ pc \in [Num -> Stages]
  /\ got \in [Num -> {"none", "data", "lost", "error"}]
  /\ outer \subseteq Num /\ inner \subseteq Num /\ joining \subseteq Num
  /\ growing \in [Heads -> SUBSET Num]
  /\ series \in Series(Heads)
  /\ pending \in [Num -> Seq(Heads)]
  /\ written \in Seq(Heads)
  /\ errs \subseteq 0 .. MaxLines
  /\ ret \in {"none", "nil", "error", "short", "unreturned"}

InOrder(s) == \A i \in 1 .. Len(s) : s[i] = i - 1

\* One instance joins at a time, and only one that joins has blocks to write.
JoinInv ==
  /\ \A m, n \in joining : m = n
  /\ \A n \in Num : /\ pc[n] \in {"joining", "writing"} => n \in joining
                    /\ pending[n] # <<>> => pc[n] = "writing"

\* Sort has been given block h.
Added(h) ==
  \/ h < series.start
  \/ /\ h < series.start + Len(series.values)
     /\ series.values[h - series.start + 1] # Nil

\* A group that is complete has one instance to carry it on and no other has
\* more to do; so its head is new to the series when it gets there.
GroupInv ==
  /\ \A h \in Heads : \A m \in growing[h] : HeadOf(m) = h /\ pc[m] = "closed"
  /\ \A n \in Num : pc[n] \in {"grouped", "joined", "joining"} =>
       \A m \in Shards(HeadOf(n)) \ {n} : pc[m] = "closed"
  /\ \A n \in Num : Added(HeadOf(n)) => pc[n] \in {"writing", "closed"}

\* A position of the series holds its own head, and the first is a gap.
SeriesInv ==
  /\ \A q \in 1 .. Len(series.values) :
       series.values[q] \in {Nil, series.start + q - 1}
  /\ Len(series.values) > 0 => series.values[1] = Nil

\* What has left the series is written or about to be, in order.
WriteInv ==
  ~broken =>
    /\ InOrder(written)
    /\ \A n \in Num : pc[n] = "writing" =>
         /\ Len(written) + Len(pending[n]) = series.start
         /\ \A i \in 1 .. Len(pending[n]) : pending[n][i] = Len(written) + i - 1
    /\ (\A n \in Num : pc[n] # "writing") => Len(written) = series.start

\* What the order of the output rests on: join's slot makes taking blocks off
\* the series and writing them one step to all others, and each block comes to
\* the series once.
OrderInv == TypeOK /\ JoinInv /\ GroupInv /\ SeriesInv /\ WriteInv

Blocks == lines \div NShards

Early   == {"index", "started", "reading", "read"}
Taken   == {"grouped", "joined", "joining"}

\* As long as a group grows, its other shards have not come.
GrowInv ==
  \A h \in Heads :
    growing[h] # {} \/ (\E n \in Shards(h) : pc[n] \in Early) =>
      /\ Cardinality(growing[h]) < NShards
      /\ \A m \in Shards(h) \ growing[h] : pc[m] \in Early

\* Only groups that are whole in the index are taken on.
WholeInv ==
  /\ \A n \in Num : pc[n] # "index" => n < lines
  /\ \A n \in Num : pc[n] \in Taken \cup {"writing"} => HeadOf(n) < Blocks
  /\ series.start + Len(series.values) <= Blocks

\* A shard that has come is not lost track of: its group grows, goes on, is in
\* the series, or has met an error.
TrackInv ==
  \A n \in Num :
    /\ pc[n] = "writing" => Added(HeadOf(n))
    /\ pc[n] = "closed" =>
         \/ n \in growing[HeadOf(n)] \/ Added(HeadOf(n))
         \/ \E m \in Shards(HeadOf(n)) : pc[m] \in Taken \/ m \in errs

\* An error has a reason.
ErrInv ==
  /\ broken => errs # {}
  /\ errs # {} => \/ broken \/ malformed
                  \/ \E h \in Heads : /\ h < Blocks /\ ~Joinable(h)
                                      /\ \A m \in Shards(h) : pc[m] \notin Early

\* What procs.Process returns is what it has seen.
RetInv ==
  /\ ret = "error" => errs # {}
  /\ ret \in {"nil", "short", "unreturned"} => Drained
  /\ ret = "nil" => ~Short
  /\ ret = "short" => Short

\* What the end of a restore rests on: nothing gets lost between the procs.
AccountInv == GrowInv /\ WholeInv /\ TrackInv /\ ErrInv /\ RetInv

\* A slot is held from the stage that takes it on.
SlotInv ==
  /\ \A n \in outer : pc[n] # "index"
  /\ \A n \in inner : pc[n] \notin {"index", "started"}
  /\ \A n \in joining : pc[n] \in {"joining", "writing", "closed"}

\* The blocks to write are the last ones that left the series, failures or not.
PendingInv ==
  \A n \in Num : \A i \in 1 .. Len(pending[n]) :
    pending[n][i] = series.start - Len(pending[n]) + i - 1

IndInv == OrderInv /\ AccountInv /\ SlotInv /\ PendingInv

\* What an instance waits for: its turn and a slot of the outer backlog, a slot
\* of the inner one, join's; otherwise it is busy, or has a slot to give back.
CanMove(n) ==
  \/ /\ pc[n] = "index" /\ n < lines /\ \A m \in 0 .. n - 1 : pc[m] # "index"
     /\ Cardinality(outer) < Outer
  \/ pc[n] = "started" /\ Cardinality(inner) < Inner
  \/ pc[n] = "joined" /\ joining = {}
  \/ pc[n] \in {"reading", "read", "grouped", "joining", "writing"}
  \/ n \in inner /\ pc[n] # "reading"
  \/ n \in joining \cup outer /\ pc[n] = "closed"

\* What procs.Process waits for: the error after the last line, any error, the end.
MainCanMove ==
  \/ malformed /\ lines \notin errs /\ \A n \in Line : pc[n] # "index"
  \/ errs # {} \/ Drained

\* However slots are spread over instances, and whatever failed: there is one
\* whose wait is over, as long as procs.Process has not returned.
NeverStuck == ret = "none" => MainCanMove \/ \E n \in Num : CanMove(n)

\* What is left of a restore: stages, slots to take and give back, blocks to
\* write, the error of the index and the return.
Rank == [index |-> 0, started |-> 1, reading |-> 2, read |-> 3, grouped |-> 4,
         joined |-> 5, joining |-> 6, writing |-> 7, closed |-> 8]

StagesLeft  == {x \in Num \X (1 .. 8) : x[2] > Rank[pc[x[1]]]}
OuterLeft   == {n \in Num : pc[n] = "index" \/ n \in outer}
InnerLeft   == {n \in Num : pc[n] \in {"index", "started"} \/ n \in inner}
JoiningLeft == {n \in Num : pc[n] \in Early \cup {"grouped", "joined"} \/ n \in joining}
BlocksLeft  == {h \in Heads : \/ h >= series.start
                              \/ \E n \in Num : \E i \in 1 .. Len(pending[n]) :
                                   pending[n][i] = h}
ReturnsLeft == {r \in {"index", "main"} : IF r = "index" THEN malformed /\ lines \notin errs
                                                        ELSE ret = "none"}

Left == <<StagesLeft, OuterLeft, InnerLeft, JoiningLeft, BlocksLeft, ReturnsLeft>>

\* A step, whatever it does, takes something off what is left and adds nothing:
\* no restore goes on for ever.
Shrinks == Left' # Left /\ \A k \in 1 .. 6 : Left'[k] \subseteq Left[k]

\* Join: while no write has failed, what is written is the beginning of the
\* seed, whatever the order shards, groups and instances come in.
OutputInOrder == ~broken => InOrder(written)

\* Series.Add never panics: no block comes twice, or after the series has gone
\* past it.
SortNeverPanics == \A n \in Num : pc[n] = "joining" => CanAdd(series, HeadOf(n))

\* procs.Process: whoever sees no error of a proc has all the blocks of whole
\* groups, whatever Finish says then; and Finish tells an index cut in a group.
NoErrorMeansWhole ==
  /\ ret \in {"nil", "short", "unreturned"} =>
       ~broken /\ ~malformed /\ Len(written) = Blocks
  /\ ret = "nil" => lines % NShards = 0

\* A restore fails only for something that redundancy does not cover: an error
\* of another kind, more shards lost in one group than there are parity shards,
\* the index, the output.
ErrorJustified ==
  /\ ret = "error" => \/ broken \/ malformed
                      \/ \E h \in Heads : Shards(h) \subseteq Line /\ ~Joinable(h)
  /\ ret = "short" => lines % NShards # 0

\* Restores end: groups wait for shards of instances not yet started, and never
\* keep the slots these need.
Ends == <>(ret # "none")

Promise == INSTANCE OrderedOutput WITH
  total <- Blocks, out <- written, intact <- ~broken,
  result <- CASE ret = "none" -> "running" [] ret = "nil" -> "ok"
              [] OTHER -> "failed"

\* A restore implements OrderedOutput.
ImplementsOrderedOutput == Promise!OutSpec
=============================================================================
