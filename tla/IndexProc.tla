------------------------------ MODULE IndexProc ------------------------------
(***************************************************************************)
(* The index proc of procs/index.go as procs.Chain drives it.  The seed is *)
(* split into N chunks; a Chain instance runs for each of them, many at a  *)
(* time, so chunks reach the index in any order and their outputs (finals) *)
(* come back in any order.  Chunks of equal content are emitted once: the  *)
(* first to be registered is processed, the others only occupy their       *)
(* positions of the index.                                                 *)
(*                                                                         *)
(* Every critical section of the code is one action; between two of them   *)
(* any other chunk may take steps.                                         *)
(***************************************************************************)
EXTENDS SeriesSort, SequencesExt

CONSTANTS N,        \* number of chunks the seed is split into
          Hash,     \* the contents chunks can have
          NFinals,  \* number of finals the chain makes of each content
          Faults    \* may procs and the index writer report errors

Num == 0 .. N - 1

\* type finals struct
Finals == [num : Num, entries : Seq(Nat), complete : BOOLEAN]

ASSUME IndexAssumption ==
  /\ N \in Nat
  /\ NFinals \in [Hash -> Nat]
  /\ Nil \notin Hash \cup Finals
  /\ Faults \in BOOLEAN

VARIABLES content,  \* content[n]: hash of chunk n of the seed
          pc,       \* how far the Chain instance of each chunk is
          todo,     \* finals of each chunk that have not reached the end yet
          order,    \* indexProc.order
          finals,   \* indexProc.finals, Nil where the map has no entry
          log,      \* what was written: one block of lines per writeEntries
          failed    \* some Res with an error has been emitted

vars == <<content, pc, todo, order, finals, log, failed>>

\* The finals of a content are numbered; their lines carry its hash.
FinalsOf(h) == 1 .. NFinals[h]

\* Mutation: no sort, lines in the order the finals arrived.
WriteLinesAsArrived(h, entries) ==
  [i \in 1 .. Len(entries) |-> <<h, entries[i]>>]

\* sort.Slice of entries by final number: the i-th is the one of rank i.
Rank(S, e) == Cardinality({d \in S : d <= e})

ByNum(entries) ==
  LET S == ToSet(entries)
  IN  [i \in 1 .. Cardinality(S) |-> CHOOSE e \in S : Rank(S, e) = i]

\* writeEntries: one line per entry.
WriteLines(h, entries) ==
  [i \in 1 .. Cardinality(ToSet(entries)) |-> <<h, ByNum(entries)[i]>>]

Init == /\ content \in [Num -> Hash]
        /\ pc = [n \in Num |-> "new"]
        /\ todo = [n \in Num |-> {}]
        /\ order = EmptySeries
        /\ finals = [h \in Hash |-> Nil]
        /\ log = <<>>
        /\ failed = FALSE

-----------------------------------------------------------------------------
\* Mutation: the series is given the chunk's number instead of its hash.
SetOrderByNum(n) ==
  /\ pc[n] = "new"
  /\ order' = Add(order, n, n)
  /\ pc' = [pc EXCEPT ![n] = "ordered"]
  /\ UNCHANGED <<content, todo, finals, log, failed>>

\* indexProc.Process, first critical section: orderMu.
SetOrder(n) ==
  /\ pc[n] = "new"
  /\ order' = Add(order, n, content[n])
  /\ pc' = [pc EXCEPT ![n] = "ordered"]
  /\ UNCHANGED <<content, todo, finals, log, failed>>

\* Mutation: the lookup that spares duplicates is gone.
RegisterAlways(n) ==
  /\ pc[n] = "ordered"
  /\ finals' = [finals EXCEPT ![content[n]] =
                   [num |-> n, entries |-> <<>>, complete |-> FALSE]]
  /\ pc' = [pc EXCEPT ![n] = "open"]
  /\ todo' = [todo EXCEPT ![n] = FinalsOf(content[n])]
  /\ UNCHANGED <<content, order, log, failed>>

\* indexProc.Process, second critical section: finalsMu.  Only the chunk that
\* creates the finals of its hash is sent on to the rest of the chain.
Register(n) ==
  /\ pc[n] = "ordered"
  /\ IF finals[content[n]] = Nil
     THEN /\ finals' = [finals EXCEPT ![content[n]] =
                          [num |-> n, entries |-> <<>>, complete |-> FALSE]]
          /\ pc' = [pc EXCEPT ![n] = "open"]
          /\ todo' = [todo EXCEPT ![n] = FinalsOf(content[n])]
     ELSE /\ pc' = [pc EXCEPT ![n] = "dup"]
          /\ UNCHANGED <<finals, todo>>
  /\ UNCHANGED <<content, order, log, failed>>

\* The proc before the index (checksum) fails: the chunk never gets a hash,
\* and its ProcessEnd finds no finals (ErrIndexUnprocessedChunk).
FailBefore(n) ==
  /\ Faults /\ pc[n] = "new"
  /\ pc' = [pc EXCEPT ![n] = "ended"]
  /\ failed' = TRUE
  /\ UNCHANGED <<content, todo, order, finals, log>>

\* ProcessFinal's three refusals: unprocessed chunk, ended process, dup.
AcceptsFinal(n) ==
  LET f == finals[content[n]]
  IN  f # Nil /\ ~f.complete /\ f.num = n

ProcessFinal(n, k) ==
  /\ pc[n] = "open" /\ k \in todo[n]
  /\ todo' = [todo EXCEPT ![n] = @ \ {k}]
  /\ IF AcceptsFinal(n)
     THEN /\ finals' = [finals EXCEPT ![content[n]].entries = Append(@, k)]
          /\ UNCHANGED failed
     ELSE failed' = TRUE /\ UNCHANGED finals
  /\ UNCHANGED <<content, pc, order, log>>

\* A final arrives as an error: endCallProc.Process is not called for it.
FailFinal(n, k) ==
  /\ Faults /\ pc[n] = "open" /\ k \in todo[n]
  /\ todo' = [todo EXCEPT ![n] = @ \ {k}]
  /\ failed' = TRUE
  /\ UNCHANGED <<content, pc, order, finals, log>>

\* Mutation: the end of a duplicate returns without a flush.
SetFinalsCompleteOnly(n) ==
  /\ pc[n] \in {"open", "dup"} /\ todo[n] = {}
  /\ finals' = IF finals[content[n]].num = n
               THEN [finals EXCEPT ![content[n]].complete = TRUE]
               ELSE finals
  /\ pc' = [pc EXCEPT ![n] = IF pc[n] = "dup" THEN "ended" ELSE "flushing"]
  /\ UNCHANGED <<content, todo, order, log, failed>>

\* ProcessEnd, first half: setFinalsComplete, called once the chain has
\* nothing more to emit for the chunk, with or without errors.
SetFinalsComplete(n) ==
  /\ pc[n] \in {"open", "dup"} /\ todo[n] = {}
  /\ finals' = IF finals[content[n]].num = n
               THEN [finals EXCEPT ![content[n]].complete = TRUE]
               ELSE finals
  /\ pc' = [pc EXCEPT ![n] = "flushing"]
  /\ UNCHANGED <<content, todo, order, log, failed>>

\* Mutation: flush does not wait for the end of the content's chunk.
RegisteredHashes == {h \in Hash : finals[h] # Nil}

CompleteHashes == {h \in Hash : finals[h] # Nil /\ finals[h].complete}

\* ProcessEnd, second half: flush, under orderMu.  (The finals' own mutexes
\* are taken one after the other, but complete is never reset, so flush acts
\* as if it read them all when it reads the last one.)
Block(h) == WriteLines(h, finals[h].entries)

\* Mutation: one block per flush.
FlushOne(n) ==
  /\ pc[n] = "flushing"
  /\ LET sorted == Sorted(order)
         i      == IF PrefixLen(sorted, CompleteHashes) > 0 THEN 1 ELSE 0
     IN  /\ log' = log \o [j \in 1 .. i |-> Block(sorted[j])]
         /\ order' = Drop(order, i)
  /\ pc' = [pc EXCEPT ![n] = "ended"]
  /\ UNCHANGED <<content, todo, finals, failed>>

Flush(n) ==
  /\ pc[n] = "flushing"
  /\ LET sorted == Sorted(order)
         i      == PrefixLen(sorted, CompleteHashes)
     IN  /\ log' = log \o [j \in 1 .. i |-> Block(sorted[j])]
         /\ order' = Drop(order, i)
  /\ pc' = [pc EXCEPT ![n] = "ended"]
  /\ UNCHANGED <<content, todo, finals, failed>>

\* The writer fails in the (i+1)-th block, after some of its lines: the blocks
\* before it are dropped from the order, it is not.
FlushError(n) ==
  /\ Faults /\ pc[n] = "flushing"
  /\ LET sorted == Sorted(order)
     IN  \E i \in 0 .. PrefixLen(sorted, CompleteHashes) - 1 :
           \E lines \in 0 .. Len(Block(sorted[i + 1])) - 1 :
             /\ log' = log \o [j \in 1 .. i |-> Block(sorted[j])]
                           \o <<SubSeq(Block(sorted[i + 1]), 1, lines)>>
             /\ order' = Drop(order, i)
  /\ pc' = [pc EXCEPT ![n] = "ended"]
  /\ failed' = TRUE
  /\ UNCHANGED <<content, todo, finals>>

\* indexProc.Finish.
FinishErrShort == SeriesLen(order) > 0

Step(n) == \/ SetOrder(n) \/ Register(n) \/ FailBefore(n)
           \/ \E k \in todo[n] : ProcessFinal(n, k) \/ FailFinal(n, k)
           \/ SetFinalsComplete(n) \/ Flush(n) \/ FlushError(n)

\* procs.Process returns when every Chain instance has closed its output.
AllEnded == \A n \in Num : pc[n] = "ended"

Returned == AllEnded /\ UNCHANGED vars

Next == (\E n \in Num : Step(n)) \/ Returned

Spec == Init /\ [][Next]_vars

\* Every goroutine of a Chain instance goes on, and the procs after the index
\* end: each final arrives, as a chunk or as an error.
Fairness == \A n \in Num : WF_vars(Step(n))

FairSpec == Spec /\ Fairness
-----------------------------------------------------------------------------
\* Types, and what a rolling series is: nothing negative, nothing past N.
TypeOK ==
  /\ content \in [Num -> Hash]
  /\ pc \in [Num -> {"new", "ordered", "open", "dup", "flushing", "ended"}]
  /\ todo \in [Num -> SUBSET Nat]
  /\ order \in Series(Hash)
  /\ finals \in [Hash -> Finals \cup {Nil}]
  /\ log \in Seq(Seq(Hash \X Nat))
  /\ failed \in BOOLEAN

\* The lines the index owes to a chunk of content h: every final of the
\* content, by number, however late and in whatever order they came.
OwedLines(h) == WriteLines(h, [k \in FinalsOf(h) |-> k])

\* Unless an error was reported, what has been written is the head of the
\* index the seed calls for: no block missing, repeated, out of place, short
\* of a final or made before its content was complete, and a duplicate repeats
\* the block of the chunk that was processed (indexProc.flush).
LogIsPrefix ==
  ~failed => /\ Len(log) <= N
             /\ \A i \in 1 .. Len(log) : log[i] = OwedLines(content[i - 1])

\* Series.Add never panics: no chunk can be late for its position, even though
\* flush drops positions while other chunks are still being registered, and
\* even after errors.
NeverLate == \A n \in Num : pc[n] = "new" => CanAdd(order, n)

\* ProcessFinal never refuses a final of a Chain: whoever is emitted created
\* the finals of its hash, and nobody else's ProcessEnd completes them.
NoRefusal == \A n \in Num : pc[n] = "open" => AcceptsFinal(n)

\* When every chain has ended without an error the whole index is out, and
\* Finish agrees: the last flush cannot have missed a completion.
CleanRunIsWhole ==
  AllEnded /\ ~failed => Len(log) = N /\ ~FinishErrShort

\* What makes the above inductive.  The series holds each position's own
\* content, and no gap but for chunks that have not come yet ...
OrderInv ==
  /\ order.start + Len(order.values) <= N
  /\ \A n \in Num : n < order.start => pc[n] # "new"
  /\ \A i \in 1 .. Len(order.values) :
       order.values[i] # Nil => /\ order.values[i] = content[order.start + i - 1]
                                /\ pc[order.start + i - 1] # "new"
  /\ ~failed =>
       /\ order.start = Len(log)
       /\ \A n \in Num : pc[n] # "new" => n < order.start + Len(order.values)
       /\ \A i \in 1 .. Len(order.values) :
            order.values[i] = Nil => pc[order.start + i - 1] = "new"

\* ... the finals of a content belong to the chunk that created them, are
\* complete once that chunk's ProcessEnd has run and then lack nothing ...
FinalsInv ==
  \A h \in Hash : finals[h] # Nil =>
    LET f == finals[h] IN
    /\ content[f.num] = h
    /\ pc[f.num] \in {"open", "flushing", "ended"}
    /\ f.complete <=> pc[f.num] # "open"
    /\ ~failed => FinalsOf(h) = ToSet(f.entries) \cup todo[f.num]

\* ... every chunk past its registration finds finals under its hash ...
ChunkInv ==
  \A n \in Num :
    /\ pc[n] \in {"open", "dup", "flushing"} => finals[content[n]] # Nil
    /\ pc[n] = "ended" /\ ~failed => finals[content[n]] # Nil
    /\ pc[n] = "open" => finals[content[n]].num = n
    /\ pc[n] = "dup" => finals[content[n]].num # n
    /\ pc[n] # "open" => todo[n] = {}

\* ... and when the head of the series could be written, a flush is to come.
HeadInv ==
  /\ Len(order.values) > 0
  /\ order.values[1] \in CompleteHashes
  => \E n \in Num : pc[n] \notin {"new", "ended"}

IndInv == /\ TypeOK /\ OrderInv /\ FinalsInv /\ ChunkInv
          /\ failed \/ HeadInv
          /\ LogIsPrefix

\* Every run ends with the whole index written or with an error, and stays so.
EventuallyWhole == <>[](failed \/ Len(log) = N)

\* What is left of the chunks' ways through the chain: stages, and finals that are
\* to arrive.
Stage(n) == CASE pc[n] = "new" -> 4
              [] pc[n] = "ordered" -> 3
              [] pc[n] \in {"open", "dup"} -> 2
              [] pc[n] = "flushing" -> 1
              [] pc[n] = "ended" -> 0

StagesLeft == {x \in Num \X (1 .. 4) : x[2] <= Stage(x[1])}
FinalsLeft == {x \in UNION {{n} \X FinalsOf(content[n]) : n \in Num} :
                 pc[x[1]] \in {"new", "ordered"} \/ x[2] \in todo[x[1]]}

\* No step of a chunk but takes something off that, whatever fails.
Shrinks == /\ StagesLeft' \subseteq StagesLeft /\ FinalsLeft' \subseteq FinalsLeft
           /\ StagesLeft' # StagesLeft \/ FinalsLeft' # FinalsLeft

Abstract == INSTANCE IndexLog WITH Lines <- OwedLines

\* The index proc implements IndexLog.
ImplementsIndexLog == Abstract!LogSpec
=============================================================================
