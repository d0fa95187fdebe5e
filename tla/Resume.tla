------------------------------- MODULE Resume -------------------------------
(***************************************************************************)
(* Backups into stores run after run, and restores from them, when a run   *)
(* may be killed or fail between any two steps: the stores of stores/, as  *)
(* the files each holds under the chunks' names.  A run keeps nothing but  *)
(* those files: it starts from their listing (stores.MultiLister).         *)
(*                                                                         *)
(* A run goes one of three ways: "stripe", a backup through mincopies(Min  *)
(* ...) over all stores; "direct", a backup whose chain has one store as a *)
(* proc, which lists nothing; "restore", reads through multireader.        *)
(* Instances of a chain process chunks, duplicates among them.  A chunk's  *)
(* data is blocks written one at a time; a file is the sequence that says  *)
(* of each of its blocks if it is the chunk's ("right").                   *)
(***************************************************************************)
EXTENDS Placement, Sequences

CONSTANTS Store,
          Kind,      \* of each store: "cp", "dd" (scp, which runs it over ssh) or "rclone"
          Hash,      \* chunks, by content
          Size,      \* blocks of each
          Inst,      \* instances of the chain
          HashOf,    \* the chunk each processes
          Min,       \* copies that "stripe" ensures
          Ways,      \* the ways in use
          MaxFaults, \* bound on failures and kills
          Absent,    \* no file
          OneVariable \* the iterations of a loop share its variable: see MultiReader

ASSUME ResumeAssumption ==
  /\ IsFiniteSet(Store) /\ Kind \in [Store -> {"cp", "dd", "rclone"}]
  /\ Size \in [Hash -> Nat \ {0}] /\ HashOf \in [Inst -> Hash]
  /\ Min \in Nat /\ Ways \subseteq {"stripe", "direct", "restore"}
  /\ MaxFaults \in Nat /\ Absent \notin Seq({"right", "wrong"})
  /\ OneVariable \in BOOLEAN

VARIABLES file,    \* what each store holds under each chunk's name
          phase,   \* of the run: "off", "listing", "on"
          way,
          dest,    \* the stores of the run's chain
          listed,  \* those whose Ls has ended
          known,   \* copies.Reg: owners of each chunk
          missed,  \* files that the listing has left out without an error
          gone,    \* stores that have failed (quota.Man.Delete) or that have been
                   \* removed from the registry (copies.Reg.RemoveOwner)
          begun,   \* instances that have begun
          todo,    \* stores each has still to open a file on
          open,    \* those it is writing to
          off,     \* ... and the blocks it has written
          failed,  \* instances with an error among their results
          stuck,   \* ... those for which Procs returned it, locks kept
          got,     \* what a restore has got of each chunk
          result,  \* of the run before, or of this one when it is over
          left,    \* files that were not whole when the run started
          nfaults

runVars == <<phase, way, dest, listed, missed, result, left>>
vars == <<file, runVars, known, gone, begun, todo, open, off, failed, stuck, got, nfaults>>

File == Seq({"right", "wrong"})

Full(h) == [b \in 1..Size[h] |-> "right"]
Exists(s, h) == file[s][h] # Absent
Whole(s, h) == file[s][h] = Full(h)
Unwhole == {k \in Store \X Hash : Exists(k[1], k[2]) /\ ~Whole(k[1], k[2])}

TypeOK ==
  /\ file \in [Store -> [Hash -> File \cup {Absent}]]
  /\ phase \in {"off", "listing", "on"}
  /\ way \in {"stripe", "direct", "restore"}
  /\ dest \subseteq Store /\ listed \subseteq Store /\ gone \subseteq Store
  /\ known \in [Hash -> SUBSET Store]
  /\ begun \subseteq Inst /\ failed \subseteq Inst /\ stuck \subseteq Inst
  /\ todo \in [Inst -> SUBSET Store] /\ open \in [Inst -> SUBSET Store]
  /\ off \in [Inst -> [Store -> Nat]]
  /\ got \in [Hash -> {"none", "whole", "corrupt", "lost", "error"}]
  /\ result \in {"none", "ok", "error", "killed"}
  /\ left \subseteq Store \X Hash /\ missed \subseteq Store \X Hash
  /\ nfaults \in 0..MaxFaults

\* What a run holds in memory, at its start and when it is over.
Fresh == /\ listed' = {} /\ known' = [h \in Hash |-> {}] /\ missed' = {} /\ gone' = {}
         /\ begun' = {} /\ failed' = {} /\ stuck' = {}
         /\ todo' = [i \in Inst |-> {}] /\ open' = [i \in Inst |-> {}]
         /\ off' = [i \in Inst |-> [s \in Store |-> 0]]
         /\ got' = [h \in Hash |-> "none"]

Init == /\ file = [s \in Store |-> [h \in Hash |-> Absent]]
        /\ phase = "off" /\ way = "stripe" /\ dest = {} /\ result = "none"
        /\ listed = {} /\ known = [h \in Hash |-> {}] /\ missed = {} /\ gone = {}
        /\ begun = {} /\ failed = {} /\ stuck = {}
        /\ todo = [i \in Inst |-> {}] /\ open = [i \in Inst |-> {}]
        /\ off = [i \in Inst |-> [s \in Store |-> 0]]
        /\ got = [h \in Hash |-> "none"]
        /\ left = {} /\ nfaults = 0

Fault == nfaults < MaxFaults /\ nfaults' = nfaults + 1

-----------------------------------------------------------------------------
(* The start of a run: argproc builds the procs, New and NewMultiReader    *)
(* list the stores.                                                        *)

StartRun(w, D) ==
  /\ phase = "off" /\ w \in Ways
  /\ way' = w /\ dest' = D
  /\ phase' = IF w = "direct" THEN "on" ELSE "listing"
  /\ result' = "none" /\ left' = Unwhole
  /\ Fresh /\ UNCHANGED <<file, nfaults>>

Stripe == StartRun("stripe", Store)
Direct(s) == StartRun("direct", {s})
Restore == StartRun("restore", Store)

Names(s) == {h \in Hash : Exists(s, h)}

\* What a lister may send of the names n: all of them, or as many as come
\* before an error.
Sent(n) == {[names |-> n, err |-> FALSE]}
             \cup {[names |-> some, err |-> TRUE] : some \in SUBSET n}

\* filepath.Glob, which leaves out what it cannot read and says nothing of it; then
\* a Stat of each file found: directories are passed over, an error ends it.
LocalLister(s) == [names : SUBSET Names(s), err : BOOLEAN]

\* Mutation: the exit status of find is not asked for.
FindExitIgnored(s) == {[names |-> r.names, err |-> FALSE] : r \in Sent(Names(s))}

\* find: sizes and names as they come; then its exit status, which counts
\* for more than what was read.
FindDirLister(s) == Sent(Names(s))

\* rclone ls: its output is read when it has ended without error.
RcloneLs(s) == {r \in Sent(Names(s)) : r.err => r.names = {}}

\* A store's Ls.  Names that are not hashes are passed over, sizes are not
\* looked at.
Ls(s) == CASE Kind[s] = "cp" -> LocalLister(s)
           [] Kind[s] = "dd" -> FindDirLister(s)
           [] Kind[s] = "rclone" -> RcloneLs(s)

\* MultiLister: entries of a listing without error are added to the registry,
\* ...
List(s) ==
  /\ phase = "listing" /\ s \in dest \ listed
  /\ \E r \in Ls(s) :
       /\ ~r.err
       /\ known' = [h \in Hash |-> IF h \in r.names THEN known[h] \cup {s} ELSE known[h]]
       /\ missed' = missed \cup ({s} \X (Names(s) \ r.names))
       /\ IF r.names = Names(s) THEN UNCHANGED nfaults ELSE Fault
  /\ listed' = listed \cup {s}
  /\ phase' = IF listed' = dest THEN "on" ELSE "listing"
  /\ UNCHANGED <<file, way, dest, gone, begun, todo, open, off, failed, stuck, got, result,
                 left>>

Over(r) == /\ phase' = "off" /\ result' = r
           /\ Fresh /\ UNCHANGED <<file, way, dest, left>>

\* ... those of one with an error are not, and the run is over before it has
\* begun.
ListError(s) ==
  /\ phase = "listing" /\ s \in dest \ listed
  /\ \E r \in Ls(s) : r.err
  /\ Fault /\ Over("error")

-----------------------------------------------------------------------------
(* Writing.                                                                *)

Begins(i) == phase = "on" /\ i \notin begun /\ begun' = begun \cup {i}

Busy(i) == todo[i] # {} \/ open[i] # {}
Locked(h) == \E i \in begun : HashOf[i] = h /\ (Busy(i) \/ i \in stuck)

Usable == Store \ gone
Missing(h) == Lacking(known[h], Usable, Min)

\* stripeP.Procs, for a group of one chunk: see StoreStripe.
Plan(i) ==
  /\ way = "stripe" /\ Begins(i) /\ ~Locked(HashOf[i])
  /\ Cardinality(Usable) >= Min
  /\ \E jobs \in SUBSET (Usable \ known[HashOf[i]]) :
       /\ Cardinality(jobs) = Missing(HashOf[i])
       /\ todo' = [todo EXCEPT ![i] = jobs]
  /\ UNCHANGED <<runVars, file, known, gone, open, off, failed, stuck, got, nfaults>>

PlanShort(i) ==
  /\ way = "stripe" /\ Begins(i) /\ ~Locked(HashOf[i])
  /\ Cardinality(Usable) < Min
  /\ failed' = failed \cup {i} /\ stuck' = stuck \cup {i}
  /\ UNCHANGED <<runVars, file, known, gone, todo, open, off, got, nfaults>>

\* A store as a proc of the chain: whatever it holds, the chunk is written.
Put(i) ==
  /\ way = "direct" /\ Begins(i)
  /\ todo' = [todo EXCEPT ![i] = dest]
  /\ UNCHANGED <<runVars, file, known, gone, open, off, failed, stuck, got, nfaults>>

SetFile(s, h, f) == file' = [file EXCEPT ![s][h] = f]

Opens(i, s) ==
  /\ phase = "on" /\ s \in todo[i]
  /\ todo' = [todo EXCEPT ![i] = @ \ {s}]
  /\ open' = [open EXCEPT ![i] = @ \cup {s}]
  /\ off' = [off EXCEPT ![i][s] = 0]
  /\ UNCHANGED <<runVars, known, gone, begun, failed, stuck, got, nfaults>>

\* Mutation: O_TRUNC.
CpTruncates(i, s) ==
  /\ Kind[s] = "cp" /\ Opens(i, s)
  /\ SetFile(s, HashOf[i], <<>>)

\* O_WRONLY|O_CREATE: what is there stays, to be written over.
CpOpen(i, s) ==
  /\ Kind[s] = "cp" /\ Opens(i, s)
  /\ IF Exists(s, HashOf[i]) THEN UNCHANGED file ELSE SetFile(s, HashOf[i], <<>>)

\* dd of=..., after mkdir -p if the directory is nested: what is there goes.
DdOpen(i, s) ==
  /\ Kind[s] = "dd" /\ Opens(i, s)
  /\ SetFile(s, HashOf[i], <<>>)

\* File f with the right block at n + 1, and wrong ones in between if it ends
\* before n (a writer whose file another has truncated).
Written(f, n) ==
  [b \in 1..(IF Len(f) > n THEN Len(f) ELSE n + 1) |->
     IF b = n + 1 THEN "right" ELSE IF b <= Len(f) THEN f[b] ELSE "wrong"]

\* One block of io.Copy, or of dd's standard input.
Write(i, s) ==
  /\ phase = "on" /\ s \in open[i] /\ off[i][s] < Size[HashOf[i]]
  /\ SetFile(s, HashOf[i], Written(file[s][HashOf[i]], off[i][s]))
  /\ off' = [off EXCEPT ![i][s] = @ + 1]
  /\ UNCHANGED <<runVars, known, gone, begun, todo, open, failed, stuck, got, nfaults>>

Owned(i, s) == IF way = "stripe" THEN known' = [known EXCEPT ![HashOf[i]] = @ \cup {s}]
                                 ELSE UNCHANGED known

\* Mutation: the end of the copy counts before the data is written.
EndEarly(i, s) ==
  /\ phase = "on" /\ s \in open[i]
  /\ open' = [open EXCEPT ![i] = @ \ {s}]
  /\ Owned(i, s)
  /\ UNCHANGED <<runVars, file, gone, begun, todo, off, failed, stuck, got, nfaults>>

\* The end of the data: the copy has been made, and OnEnd registers it.
EndWrite(i, s) ==
  /\ phase = "on" /\ s \in open[i] /\ off[i][s] = Size[HashOf[i]]
  /\ open' = [open EXCEPT ![i] = @ \ {s}]
  /\ Owned(i, s)
  /\ UNCHANGED <<runVars, file, gone, begun, todo, off, failed, stuck, got, nfaults>>

\* rclone copy of a temporary file (see TmpDedup), which shows when all of it
\* is there.
RcloneCopy(i, s) ==
  /\ phase = "on" /\ Kind[s] = "rclone" /\ s \in todo[i]
  /\ todo' = [todo EXCEPT ![i] = @ \ {s}]
  /\ SetFile(s, HashOf[i], Full(HashOf[i]))
  /\ Owned(i, s)
  /\ UNCHANGED <<runVars, gone, begun, open, off, failed, stuck, got, nfaults>>

\* Opening, writing or a command fails; what has been written stays.
WriteError(i, s) ==
  /\ phase = "on" /\ s \in todo[i] \cup open[i]
  /\ todo' = [todo EXCEPT ![i] = @ \ {s}]
  /\ open' = [open EXCEPT ![i] = @ \ {s}]
  /\ failed' = failed \cup {i} /\ gone' = gone \cup {s}
  /\ Fault
  /\ UNCHANGED <<runVars, file, known, begun, off, stuck, got>>

-----------------------------------------------------------------------------
(* Reading.                                                                *)

\* What a store's Unproc may give: the data, whatever it is worth, or one
\* of two errors.  Only what is told from other errors is missing data.
CpLoad(s, h) == {IF Exists(s, h) THEN "data" ELSE "lost", "error"}

\* dd's message is searched for "no such file"; a connection may fail.
DdLoad(s, h) == {IF Exists(s, h) THEN "data" ELSE "lost", "error"}

\* For rclone every error is missing data, and so is no data at all.
RcloneLoad(s, h) == {IF Exists(s, h) /\ file[s][h] # <<>> THEN "data" ELSE "lost", "lost"}

Load(s, h) == CASE Kind[s] = "cp" -> CpLoad(s, h)
                [] Kind[s] = "dd" -> DdLoad(s, h)
                [] Kind[s] = "rclone" -> RcloneLoad(s, h)

\* uchecksum.
Checked(s, h) == IF Whole(s, h) THEN "whole" ELSE "corrupt"

\* The cascade over the owners in a random order, at one stroke (MultiReader takes it
\* apart).  For each that fails a store is dropped from the registry: the one that has
\* failed or, where iterations share the loop's variable, the last of the cascade.
Fetches(h, fail, last, r) ==
  /\ phase = "on" /\ way = "restore" /\ got[h] = "none"
  /\ got' = [got EXCEPT ![h] = r]
  /\ LET removed == IF OneVariable /\ fail # {} THEN {last} ELSE fail
     IN  /\ known' = [g \in Hash |-> known[g] \ removed]
         /\ gone' = gone \cup fail \cup removed
  /\ IF fail = {} THEN UNCHANGED nfaults ELSE Fault
  /\ UNCHANGED <<runVars, file, begun, todo, open, off, failed, stuck>>

\* The first that gives data ends it, ...
Fetch(h) ==
  \E fail \in SUBSET known[h] : \E s, last \in known[h] \ fail :
    "data" \in Load(s, h) /\ Fetches(h, fail, last, Checked(s, h))

\* Mutation: the cascade ends with the first that fails.
FetchFailsAtFirst(h) ==
  \/ known[h] = {} /\ Fetches(h, {}, Absent, "lost")
  \/ \E s, last \in known[h] : \E r \in Load(s, h) \ {"data"} : Fetches(h, {s}, last, r)

\* ... or all fail, and the last one's error counts; or there are none.
FetchFails(h) ==
  \/ known[h] = {} /\ Fetches(h, {}, Absent, "lost")
  \/ \E s \in known[h] : \E r \in Load(s, h) \ {"data"} : Fetches(h, known[h], s, r)

-----------------------------------------------------------------------------
(* The end of a run.                                                       *)

Done == IF way = "restore" THEN \A h \in Hash : got[h] # "none"
                           ELSE begun = Inst /\ \A i \in Inst : ~Busy(i)

\* Process ends without having met an error.
Finish == /\ phase = "on" /\ Done /\ failed = {}
          /\ \A h \in Hash : got[h] \in {"none", "whole"}
          /\ Over("ok") /\ UNCHANGED nfaults

\* Mutation: all results are read before the error is returned.
ExitDrained == /\ phase = "on" /\ Done
               /\ failed # {} \/ \E h \in Hash : got[h] \notin {"none", "whole"}
               /\ Over("error") /\ UNCHANGED nfaults

\* Process returns the first error it meets and the program exits: what other
\* instances were writing stays as it is.
Exit == /\ phase = "on"
        /\ failed # {} \/ \E h \in Hash : got[h] \notin {"none", "whole"}
        /\ Over("error") /\ UNCHANGED nfaults

\* The program is killed.
Kill == /\ phase # "off" /\ Fault /\ Over("killed")

InstStep(i) == \/ Plan(i) \/ PlanShort(i) \/ Put(i)
               \/ \E s \in Store : \/ CpOpen(i, s) \/ DdOpen(i, s) \/ Write(i, s) \/ EndWrite(i, s)
                                   \/ RcloneCopy(i, s) \/ WriteError(i, s)

RunStep == \/ \E s \in Store : List(s) \/ ListError(s)
           \/ \E i \in Inst : InstStep(i)
           \/ \E h \in Hash : Fetch(h) \/ FetchFails(h)
           \/ Finish \/ Exit

Next == Stripe \/ Restore \/ (\E s \in Store : Direct(s)) \/ RunStep \/ Kill

Spec == Init /\ [][Next]_vars

-----------------------------------------------------------------------------
(* What the stores, and a run's end, promise.                              *)

\* A copy that is whole stays so, whatever is killed or fails when: a run
\* that stripes writes to no file it has not listed as missing, and cp, which
\* does not, writes what is there already (stores/cp.go:24).  Only dd as a
\* proc of the chain empties the file first.
WholeStaysWhole ==
  [][\A s \in Store, h \in Hash :
       Whole(s, h) => Whole(s, h)' \/ (way = "direct" /\ Kind[s] = "dd")]_vars

\* A backup that ends without an error has on its store all it was given, if
\* it has one store, though the same chunk is written by several instances
\* and over what earlier runs have left; with stripe, Min copies of each, and
\* none that is not whole but those left by earlier runs, which are counted.
OkMeansWritten ==
  result = "ok" =>
    /\ way = "direct" => \A i \in Inst : \A s \in dest : Whole(s, HashOf[i])
    /\ way = "stripe" => /\ Unwhole \subseteq left
                        /\ \A i \in Inst :
                             Cardinality({s \in Store : Exists(s, HashOf[i])}) >= Min

\* A file that cp's listing has left out, as filepath.Glob may (stores/cp.go:75).  No
\* other listing that is short goes without an error.
PassedOver(s, h) == Kind[s] = "cp" /\ <<s, h>> \in missed /\ s \notin known[h]

\* A backup, run as often as may be, makes no more copies than it is to: a
\* file is created only while less than Min stores in use have one, not counting
\* those that cp's listing has left out.
NoneInExcess ==
  [][\A s \in Store, h \in Hash :
       way = "stripe" /\ phase = "on" /\ ~Exists(s, h) /\ Exists(s, h)'
         => Cardinality({t \in Usable : Exists(t, h) /\ ~PassedOver(t, h)}) < Min]_vars

\* A restore that does not give a chunk back has met a copy that was cut short, or
\* every store with a whole one has failed a read or been removed instead of one that
\* has (stores/multireader.go:49-53), or is a cp whose listing has left the file out.
ReadBack ==
  phase = "on" /\ way = "restore" =>
    \A h \in Hash : \/ got[h] \in {"none", "whole"}
                    \/ \E t \in Store : <<t, h>> \in Unwhole
                    \/ \A s \in Store : Whole(s, h) => s \in gone \/ PassedOver(s, h)

\* Every run ends, though instances may wait for locks that Procs has kept
\* (stores/stripe/stripe.go:95) or have their results read by nobody.
RunsEnd == (phase # "off") ~> (phase = "off")

\* What a run waits for: a store's listing; a chunk's lock, while another instance
\* or Procs keeps it; results, once there are some.
CanBegin(i) ==
  /\ i \notin begun
  /\ \/ way = "direct"
     \/ /\ way = "stripe" /\ ~Locked(HashOf[i])
        /\ Cardinality(Usable) >= Min =>
             \E jobs \in SUBSET (Usable \ known[HashOf[i]]) :
               Cardinality(jobs) = Missing(HashOf[i])

CanMove ==
  \/ phase = "listing" /\ listed # dest
  \/ /\ phase = "on"
     /\ \/ \E i \in Inst : \/ CanBegin(i) \/ todo[i] # {}
                           \/ \E s \in open[i] : off[i][s] <= Size[HashOf[i]]
        \/ way = "restore" /\ \E h \in Hash : got[h] = "none"
        \/ failed # {} \/ \E h \in Hash : got[h] \notin {"none", "whole"}
        \/ Done

\* Whatever locks have been kept, a run gets on.
NeverStuck == phase # "off" => CanMove

\* What is left of a run: phases, stores to list, chunks to begin, files to open
\* and to close, blocks to write, chunks to get.
Unopened(i, s) == i \notin begun \/ s \in todo[i]

PhaseLeft  == {x \in {"listing", "on"} : phase = x \/ (phase = "listing" /\ x = "on")}
ListLeft   == {s \in Store : phase = "listing" /\ s \notin listed}
BeginLeft  == {i \in Inst : phase # "off" /\ i \notin begun}
OpenLeft   == {x \in Inst \X Store : phase # "off" /\ Unopened(x[1], x[2])}
CloseLeft  == {x \in Inst \X Store : /\ phase # "off"
                                     /\ Unopened(x[1], x[2]) \/ x[2] \in open[x[1]]}
BlocksLeft == {x \in UNION {{i} \X Store \X (1..Size[HashOf[i]]) : i \in Inst} :
                 /\ phase # "off"
                 /\ \/ Unopened(x[1], x[2])
                    \/ x[2] \in open[x[1]] /\ x[3] > off[x[1]][x[2]]}
GotLeft    == {h \in Hash : phase # "off" /\ got[h] = "none"}

Left == <<PhaseLeft, ListLeft, BeginLeft, OpenLeft, CloseLeft, BlocksLeft, GotLeft>>

\* A step of a run takes something off what is left of it and adds nothing.
Shrinks == Left' # Left /\ \A k \in 1..7 : Left'[k] \subseteq Left[k]

\* README.md:36, "ensure N+ copies exist at all times", with "resumable"
\* (README.md:58): a backup that ends without an error leaves Min copies that
\* can be read.  A file that a killed run has left counts as one.
OkMeansCopies ==
  result = "ok" /\ way = "stripe" =>
    \A i \in Inst : Cardinality({s \in Store : Whole(s, HashOf[i])}) >= Min

\* Some goroutine of a run goes on, as long as one can: commands and writes
\* end one way or the other, and Process reads results.
FairSpec == Spec /\ WF_vars(RunStep)
=============================================================================
