# scat: models, checks and proofs

scat backs up a stream: a chain of *procs* splits it into chunks, compresses,
encrypts and parity-splits them, stripes them over stores and writes an index;
the reverse chain restores it. This directory holds TLA+ models of the parts of
it where concurrency, ordering and failure decide whether a backup is right, the
TLC runs that check them on small instances, and proofs checked by TLAPS that
hold for every instance. `src/` below is the repository.

    tlc -workers 2 -config MCIndexProc.cfg MCIndexProc     # a run
    tlapm IndexProcProofs.tla                              # the proofs of a module

## The system

| component | state | operations | interacts through |
|---|---|---|---|
| chain (`procs/chain.go`, `procs.go`) | none of its own; channels between procs | `Process`, `ProcessErr`, `ProcessFinal`/`ProcessEnd` of the procs that want them, `Finish` | one goroutine per proc and chunk, unbuffered channels |
| index (`procs/index.go`, `seriessort`) | rolling series of hashes, finals by hash, what is written | `Process`, `ProcessFinal`, `ProcessEnd` (complete, flush), `Finish` | called by many chains at a time, under `orderMu`, `finalsMu` and each finals' `mu` |
| striper (`stripe/`) | round robin cursor, result under construction | `S.Stripe`, `RR.Next` | pure but for the cursor, called under `seqMu` |
| store striping (`stores/stripe`) | registry and quotas below | `New`, `Procs`, `OnEnd` of each copy | locks of chunks held across `Procs` and the copies it returns |
| copies (`stores/copies`) | owners of each chunk, a lock per chunk | `List`, `Add`, `RemoveOwner`, `Owners` | shared by all groups |
| quotas (`stores/quota`) | bytes used and allowed per store | `AddUse`, `Delete`, `Resources` | shared by all groups |
| backlog, concur, slots | free slots | `Take`, `Release`, `Finish` | bound the chains and the copies under way |
| group, sort, join, parity | groups and series under construction | `Process`, `ProcessErr`, `Finish` | shared by all chains of a restore, with its output |
| failover (`multireader`, `cascade`) | registry of copies | `Process`: try the owners in turn | removes an owner that failed, for all chunks |
| temporary files (`tmpdedup`, `procs/pathcmd.go`) | entries with a WaitGroup, files, directory | `Get`, `Done`, removal, `Finish` | a goroutine per file; the program's end, which waits for none of them |
| stores (`cp`, `dd`, `rclone`, `scp`) | files under the chunks' names: all that a run leaves to the next | write, read, list | the file system, commands; listed into the registry and the quotas when a run starts |
| proc strings (`argparse/`, `argproc/`) | none; files opened while parsing | parse a text into a chain of procs | each parser calls those it is made of on what is left of the text |
| splitting, checksums, gzip, parity, commands | none that outlives a chunk | transform a chunk | |
| statistics, command | display; start and end | | |

What is hard here: chunks, their outputs and their ends reach the shared procs in
any order; two critical sections of one handler are separated by other
goroutines; copies are planned under locks and made by others later; a striping
loop whose end is not plain; files removed by one goroutine while another asks
for them; blocks that one chain completes and another writes; one registry of
copies changed by the failures of all reads; runs killed half way, and what the
next makes of their files; errors half way; the program's end; a grammar whose
parsers decide by each other's errors.

What makes each part correct: the index is the seed's, in order, whole and once; the
striper gives enough copies, spread as asked; a plan for copies is still right when
it is carried out; quotas are kept as far as concurrent planning allows; a restore
writes the seed's blocks in order, fails only for what redundancy does not cover,
and is not called whole when it is not; a failing store costs no copy on another;
every call ends; temporary files exist while used and not afterwards; a backup may
be killed and run again without damage to what is there, and what it says it has
written a restore finds; a text is taken for the chain that was meant, or rejected.
`PROJECT.json` lists the hazards line by line with the properties that watch them.

## Modules

**IndexLog** — what a backup promises of its index, with no goroutines: blocks of
lines, chunk after chunk, appended at the end; an error ends the promise.

**SeriesSort** — `seriessort.Series` as pure operators on a record
`[values, start]`: `Add`, `Drop`, `Sorted`, `Len`.

**IndexProc** — `procs/index.go` as `procs.Chain` drives it. `pc[n]` is how far
the chain of chunk `n` is; every critical section is an action: `SetOrder`,
`Register` (the two halves of `Process`), `ProcessFinal`, `SetFinalsComplete` and
`Flush` (the two halves of `ProcessEnd`). `FailBefore`, `FailFinal` and
`FlushError` are a proc that fails before the index, after it, and the index
writer. Contents are model values, finals are numbers, lines are pairs of hash and
number. `flush` takes the finals' own locks one after the other; since `complete`
is never reset, reading them at once is the same as reading them when it stops.

**Placement** — where copies are: functions from chunks to sets of stores. The copies
a chunk is lacking, the plans for just these, and what one store alone has are said
once, for the modules that make copies (Stripe), ask for them (StoreStripe, Resume)
and read them (MultiReader).

**Stripe** — `S.Stripe`, one action per way through the inner loop: `Full` (not
entered), `Reuse` (a location the item has), `Draw` (from the round robin),
`Exhausted` (drawn twice). Items are numbered in the order of the map's iteration
and stores from the cursor of the round robin on; as `got` ranges over every
placement this loses nothing. A call without stores is excluded by assumption:
then `RR.Next` gives nil and `prios` is empty, and the second draw is `ErrShort`.

**StoreStripe** — `stripeP.Procs`, the registry, the quotas, the copies and the
goroutines that unlock, for many groups at a time. `Lock` takes one chunk's lock;
`Plan` is everything from `Resources` to the making of the copy procs; `Copy` and
`Account` are the two steps of `OnEnd`, `CopyError` its error path; `Unlock` is the
goroutine that waits for a chunk's copies; `Refuse` and `PlanShort` are the error
returns of `Procs`, the second with the locks kept, as in the code. Owners are read
after each lock in the code and in `Plan` in the model: they change only under
the lock. The striper is `mincopies`, a choice among `CopyPlans`; that `S.Stripe` makes
one of them, and is short exactly when there are fewer stores than copies, is
`MakesCopyPlan` of **Stripe**.
Chunks have size 1. The slots of `concur` are left out: a slot is held only by a
running copy, which waits for no lock.

**TmpDedup** — `tmpdedup.Man` and `Dir` with `pathCmdIn`. A WaitGroup is the set of
its users and the state of the goroutine that waits for it: `parked` in `Wait`,
`released` by the last `Done`, then on its way to `remove`; reuse in between makes
`Wait` panic, as Go's does. `createdMu` is held while a file is created: `Create`
opens it (`OpenError` if it cannot), `Created` makes the entry when the copy is
complete, `CreateError` is a copy that stops half way and leaves what there is of it;
meanwhile no `Get`, `Remove` or `FinishLen` goes in. `FinishLen`, `FinishRemove` and
`Exit` are the end of the program. They have no guard but that lock: `start` defers
`tmp.Finish()` (`cmd/main.go:52`), nothing in it waits for the removing goroutines,
and an error anywhere makes `procs.Process` return while users are still at work. So
the end may come between any two steps of the others.

**OrderedOutput** — what a restore promises of its output: the seed's blocks in
order; success only when all are out; after a failed write, failure.

**Restore** — the whole chain of README's "Restore", as `procs.Process` drives it:
`backlog Outer { backlog Inner multireader | ... | uchecksum | group | uparity |
join }` under `uindex`. `pc[n]` is how far the chain instance of line `n` is. `Start`
and `Fetch` take slots; `Read` is what becomes of a shard: its data, a loss that
parity can make up for (`MissingDataError`, `ErrIntegrityCheckFailed`) or an error
it cannot (`"error"`); `Group` is `Process` and `ProcessErr`: the instance whose
shard completes the group goes on with it, the others close; `Parity` is
`parity.join`; `Join` takes the slot of join's backlog; `Sort` is the critical
section, `Write` and `WriteError` one block of what it gave; the three `Release`s
come after the closing of the output, as the deferred calls of `backlog.Process`
run. `IndexError` is a line that cannot be scanned. `ReceiveError` and `Finish` are
the two returns of `procs.Process`. A block is its number; a group holds each of
its numbers once, since the scanner numbers lines, so `build`'s two errors are not
met. The `Finish` functions run at the same time and one of their errors is
returned, hence the choice in `Finish`.

**MultiReader** — `mrd.Process` for many chunks at a time. `Lookup` reads the owners
and shuffles them, `Fail` is a store of the cascade that fails with what OnEnd does
of it, before the next is tried; `Worsen` lets a store begin to fail.
`RemoveOwner` takes the locks of the lists one by one; a later lookup reads one
list only, and the failing cascade goes on when all are done, so one step shows the
same. `OneVariable` says whether the closures of a loop share its variable, as they
do before Go 1.22.

**StoreRestore** — the two together: MultiReader as the read of Restore, which is one
choice there. An instance that has its slots (`Ask`) asks store after store; `Answer`
gives the chain what has come of it: the data, that it is missing, or the error of
the last store asked. `Outcomes` says which: `rclone` calls every failure missing
data (`stores/rclone.go:88`), `cp`, `dd` and `scp` only that of a file that is not
there (`stores/cp.go:49`, `stores/dd.go:98-101`); stores of the second kind that fail
otherwise are `Plain`. `Onward` is all the rest of the chain and `Decay` a store that
begins to fail, before, between or after reads. `Affordable` says which failures
redundancy covers.

**Resume** — `stores/` with the runs that write, list and read them. A store is the
file it holds under each chunk's name: `Absent`, or a sequence of blocks that are
`"right"` or `"wrong"`. A run goes one of three ways: `"stripe"`, a backup through
`mincopies`, whose `New` lists all stores (`List`, `ListError`, one step per store,
the first error ending the run, as `concur.FirstErr` has it); `"direct"`, a backup
with one store as a proc, which lists nothing; `"restore"`, reads through
`multireader`. The cp lister may leave files out without an error, as `filepath.Glob`
ignores what it cannot read (`stores/cp.go:75-78`); this counts as a fault. `missed`
records such files and is read by properties only. `Plan` and `PlanShort` are `Procs` for a group of one chunk, `Put` is
a store's `Process`; `CpOpen` opens without `O_TRUNC` and so writes over what is
there, `DdOpen` truncates, `Write` writes a block, `EndWrite` closes and registers,
`RcloneCopy` writes at once since rclone gives a file its name when it is whole;
`WriteError` is any of them failing. `Fetch` is a read by the cascade with its
check: the stores tried and removed are those that fail or, with `OneVariable`, for each
failure the last of the cascade, as in MultiReader. `Finish` and `Exit` the two returns of `procs.Process`, `Kill` the end of the
program between any two steps. Files survive, everything else is forgotten. `find`'s
exit status is the dd lister's error, after the names have been read. One process
runs at a time.

**ProcString** — `argparse/` and the grammar `argproc/` builds of it. A parser is a
record, as it is a value in the code; `Parse(p, text)` is the `Parse` of its type: a
value, the count of what is used, the kind of error, and the files opened by `Run`
functions so far. A text is a sequence of tokens; `Texts` are the ways a chain can
be written (spacing, brackets or none where they may be left out), `Slips` the
tokens that come in by mistake. Left out: error positions, the wrapping of procs by
statistics, white space of more than a byte (which the code counts in runes), and
what `Run` functions do other than open output files.

The `MC*` modules give the constants their values for TLC.

## Runs

| run | asks | bounds and why they suffice |
|---|---|---|
| `index` | types, order, panics, refusals, wholeness, refinement of IndexLog, termination | 3 chunks of 3 contents (2, 1 and 0 finals), so duplicates adjacent, apart and before a gap; every action may fail; 78,292 states |
| `stripe` | enough copies, loss bound, the plan `mincopies` is taken for, `ErrShort`, termination | 3 items, 3 stores, every placement and destination set, min 1-2, excl 0-3: excl above, at and below the number of items, min above the stores left; 719,836 states |
| `copies` | plans stay right, groups copied, quotas, all calls end | 3 groups, one of three chunks with one in common with each of the others, which have none and can be planned at a time; 3 stores of quota 1 (too small for the large group), 4 (where the bound on overshooting is reached) and 9; 2 copies, 2 groups under way, 9 registries to begin with; 443,519 states |
| `tmp_shared` | shared temporary files, removal, that entries go, what the program's end leaves behind | 3 users of 2 files: two share while a third comes in between or uses the other file; the program ends anywhere; 36,906 states |
| `restore` | order, wholeness, justified errors, termination, refinement of OrderedOutput | 5 or 6 lines in groups of 3 (the fifth a cut group), one parity shard, 2 lines under way and 1 read, so fewer slots than a group has shards; lost shards, failing writes, malformed index; 783,208 states |
| `restore_stores` | what a restore gives while stores fail, what is given up, who is asked again, termination | 2 groups of 2 shards (one of parity) on 3 stores, one with a shard of each group, one whose errors are `Plain`; a shard with another copy or none; 2 lines under way and 2 reads; 2 stores may begin to fail, which is affordable or not; with a variable per iteration (`OneVariable = FALSE`): with a shared one these properties do not hold, which is `read_shared_variable`; 439,503 states |
| `resume` | what a backup says it has written, what a restore finds, damage to whole copies, copies in excess, termination | any number of runs of the three ways over a store of each kind; 3 instances, two of the same chunk of 2 blocks (so that a file can be partial) and one of a chunk of 1; 2 copies; 2 failures, short cp listings or kills, which is a kill in one run and a failure in the next; `OneVariable = TRUE`, the code's case (with `FALSE`, checked too, 858,811 states); 862,565 states |
| `proc_string` | what a text is taken for, what is made of typing errors | every proc and store, alone, with a neighbour and nested, the chains of `src/README.md:120` and `:169`; each text in four ways and with each token lost or replaced; 172,058 states |
| `tmp_race`, `copies_same`, `read_shared_variable`, `resume_cut` | statements of the repository's tests and README that the code does not keep | the smallest instances that show it |

`restore` leaves out the errors of another kind (`"error"` in `Faults`): with them
it has 3,993,926 states, all of which have been checked too, but not in the time of
a run; the proofs cover them.

**Fairness.** `IndexProc`: weak fairness of each chain's steps; goroutines are
scheduled and every final arrives, as a chunk or as an error. `Stripe`: the loop
goes on. `StoreStripe`: weak fairness of calls, copies and unlocking goroutines;
strong fairness of taking a lock, since Go's mutex hands itself to a waiter that has
been starved for a millisecond. `TmpDedup`: copies and commands end and
goroutines are scheduled; nothing is assumed of when users come or when the program
ends. `Restore`: weak fairness of each instance and of `procs.Process`;
slots are a channel, whose waiters are served in their order, and an instance takes
each slot once. `StoreRestore`: the same, and a store answers or fails. `Resume`: weak
fairness of all the steps of a run taken together, as they end: no step is bound to
come before another. `ProcString` is a function of the text and needs none. No
fairness makes a fault happen: where a copy, a write or a proc may fail it shares
its fairness with succeeding.

**What the violations show.**
- `tmp_race`: `Man.Get` reuses an entry whose last user is done (`man.go:29-33`);
  the goroutine at `man.go:42` then removes the file in use. `LostOnlyIfRevived`
  shows it is the only way to lose a file.
- `copies_same`: two groups of the same two chunks lock them in opposite orders
  (`stores/stripe/stripe.go:77-86`) and never return.
- `read_shared_variable`: the closure at `stores/multireader.go:50-55` removes what
  its loop variable holds when the read ends. Shared by all iterations, that is the
  last store of the cascade: a store that works is forgotten for all chunks, and
  one failing store costs more than parity covers. `OneStoreCovered` proves that
  with a variable per iteration it does not.
- `resume_cut`: a file has its final name from the first byte (`stores/cp.go:24`,
  `stores/dd.go:48-69`) and a listing takes every name for a copy whatever its size
  (`stores/dir.go:46-57`), so that what a killed run leaves half written counts as a
  copy ever after. `src/README.md:36` promises that there are `N+` copies at all
  times and line 58 that a backup can be resumed. `BackupWritten` proves what holds:
  there are as many files, and those that are not whole were there before the run.

`restore_stores` needs the second half of `Affordable`. With a store that fails
without saying that data is missing (an `scp` host that is down, a disk that gives
an I/O error) the cascade ends with its error, which parity does not make up for, and
the restore fails although the other shards are there: `src/README.md:140`, "we can
afford to lose any one of them", holds for stores that say so. With
`listed[c] \cap Plain = {}` left out TLC finds it: one such store, one shard lost,
`ret = "error"`.

The tests' `man.Wait` before `Finish` is not in `cmd/main.go:52`: the directory of
temporary files may stay although all went well, when a removing goroutine has not come
to its end, or a user has come between the count of the entries and the removal of the
directory. `DirLeftForAReason` says that nothing else keeps it but a file half written,
and `FinishLeaves` proves it.

`resume` shows what short listings and the shared loop variable cost. A file that a cp
listing has left out is made again beside enough copies (`NoneInExcess` leaves such files
out of its count), and written over, which does no harm (`WholeStaysWhole`). A restore may
miss a whole copy although its store works: it was left out of the listing, or another
store's failure has had it removed (`ReadBack` names both).

`restore` also shows what it does not call an error: `ErrUnreturnedSlots` can be
returned of a restore that is whole, because a slot comes back after the output is
closed (`procs/backlog.go:25-26`). `NoErrorMeansWhole` says that nothing is missing
then.

`ShortJustified` says of groups of any size that a first backup with a store for each
copy is not short; with fewer stores, or old copies, it stops at groups of three
because it does not hold for larger ones.
`exclusives` (`stripe/stripe.go:114-128`) takes all items without a location for
alike, so that in the second pass a location can be refused to an item for want of
exclusive ones when it is the others that have none: `ErrShort`, "not enough target
locations", although there are. With `K = 6`, `L = 2`, `Mins = {1}`, `Excls = {1}`
(six new chunks, two stores, `stripe(1 1 ...)`) TLC finds it in seconds; four chunks
whose only copies are on one store, `excl` 3 and four stores give it as well.
Nothing is lost: the backup ends with the error.

What `proc_string` accepts is not always what was meant, where the grammar has
another reading for it: `gzip() parity(2 1)`, with the `|` forgotten, is `gzip()`,
for nobody looks at how much of a segment has been used; `a=cp(x) b=7gib`, where the
store of `b` is forgotten, gives `a` the quota; and a path with `=` in it is refused
in `stripe`, whose separator is looked for in the whole of the text. `AcceptedIsTyped`
allows for it: what a text is taken for stands there word for word in its order, but
some of the text may not count. Output files are opened, and so
emptied, while the text is parsed: of a text that is then rejected too.

## Proofs

Everything below is for all values of the constants under the named assumptions:
`IndexAssumption` (any N, contents, numbers of finals), `StripeAssumption` (at
least one item and one store), `TmpDedupAssumption` (any users and
paths, faults or none), `StoreStripeAssumption`
(finite sets of chunks and stores, any groups, quotas, copies and slots),
`RestoreAssumption` (any bound on lines, group size, parity, slots and faults),
`MultiReaderAssumption` (finitely many stores; chunks listed so that one store alone
has no more shards of a group than parity makes up for, which is `LossBound`),
`StoreRestoreAssumption` (those two, with the shards of the index's groups as
MultiReader's groups, and any stores `Plain`),
`ResumeAssumption` (finitely many stores of any kinds; any chunks, sizes, instances,
number of copies, ways and faults, `OneVariable` or not).

- **SeriesSortProofs**: lemmas on the rolling series: adding and dropping shift
  positions, `Sorted` is the run up to the first gap.
- **IndexProcProofs**: `LogCorrect`, `AddNeverPanics`, `FinalsAccepted`,
  `CleanRunCorrect`, `TypeCorrect`, and `Refines`: the index proc implements
  IndexLog. The invariant `IndInv` says what the code never states: each position of
  the series holds its own chunk's content and a gap only for one that has not
  come; the finals of a content belong to the chunk that created them and are
  complete exactly once its end has run; and, for wholeness, whenever the head of
  the series could be written some chain has still to flush. `LogIsPrefix` alone is
  not inductive: without the second part a flush could write finals that lack some.
- **StripeProofs**: `EnoughCopies`, `LossBounded`, `CopyPlanMade`, `ParityCovers`,
  `ShortIsShort`, `FirstBackupServed`, `ShortIsJustified`, `TypeCorrect`. The
  invariant: after the first
  pass the last item met has no location, or the last addition has left enough
  exclusive items; an item passed
  in the second pass has `min` locations; without exclusivity old copies come first.
  The bound on losses then follows by counting: items whose only copy is on one
  store have equal sets of locations, so at most one of them is exclusive.
  `ShortIsShort`, that `mincopies` is short only when there are too few stores,
  needs `SeenInv`: when the round robin gives a store for the second time, all
  others have been drawn since the first or are still waited for, and what has been
  drawn was taken if it could. `ShortIsJustified` adds, for one copy and groups of
  three, what becomes of exclusive chunks (`FewInv`): the first item met is never
  refused a location, one that has none was refused all that were drawn, and where two
  items are to be exclusive no two share a location; so the stores drawn in vain are
  all taken by others, of which there are few. `FirstBackupServed` is for groups of
  any size and any `min` and `excl`: where nothing is stored yet and there is a store
  for each copy, `ErrShort` is not returned and no two copies share a store
  (`FreshServed`). Its invariant (`FreshInv`) is that the stores up to the cursor have
  been given away and all items before the current one are served; when the cursor
  comes round, as many locations as there are copies are in the items, none with more
  than `min`, so by counting (`AllServed`) each has its `min`. Two theorems are for the modules
  around: `CopyPlanMade`, that `mincopies` gives just the plans StoreStripe and Resume
  choose from; and `ParityCovers`, that whatever is listed after `stripe(min excl ...)`
  fulfils what MultiReader assumes of listings, if parity makes up for as many shards
  as are not exclusive (and for one at least).
- **StoreStripeProofs**: `CopiesNeeded`, `GroupsCopied`, `QuotasKept`. The
  invariant: a group has the lock of each chunk with copies to make, so only it
  changes that chunk's owners; the copies expected of a chunk number at least `Min`
  as long as no copy failed, and exactly `Min` while some are to be made.
  `QuotasKept` counts: a store that can be used holds no more than has been
  accounted for and the copies just made (`UseInv`), and groups plan copies only
  where all their chunks would fit (`FitInv`). So a planner that finds room for its
  group overlooks just the copies that others are to make; they are of chunks whose
  locks it has not, of at most `Slots - 1` groups, and pairs of a group and a
  chunk's number in it are that many times the largest number.
- **TmpDedupProofs**: `FilesKept`, `RemovalSucceeds`, `WaitCleans`, `FinishLeaves`.
  The invariant ties holders to WaitGroups, entries to files and to the one
  goroutine that will remove them, and gives `createdMu` one holder, whose file is half
  written and has no entry (`LockInv`). `FinishLeaves` needs no more of it: a file that
  is whole has an entry, whose removing goroutine `Man.wg` still counts.
- **RestoreProofs**: `OrderKept`, `NoPanic`, `EndsWhole`, `FailsForAReason`,
  `Refines`. The invariant has two parts. `OrderInv`: of the instances of a complete
  group one goes on and the others are closed, so a block comes to Sort once; the
  series holds each block at its place behind a first gap; what has left the series
  is written or pending with the one instance that holds join's slot. Without that
  slot the last part fails, and so does the order. `AccountInv`: nothing is lost
  between the procs. A shard that has come is in a group that still grows, or its
  group goes on with one instance, or is in the series or past it, or has met an
  error (`TrackInv`); a growing group lacks just the shards that have not come
  (`GrowInv`), so a whole one goes on; only groups that are whole in the index get
  further (`WholeInv`); an error has a reason (`ErrInv`) and what is returned has been
  seen (`RetInv`). It follows that a restore that reports no error is whole, that one
  that reports an error has a reason, and that each step is a step of OrderedOutput
  or none; errors that parity does not make up for are included.
- **MultiReaderProofs**: `CopiesFound`, `OneStoreCovered`, `FailingNotAskedAgain`,
  for `~OneVariable`. The invariant: what is missing from the registry fails, and a
  cascade under way still has every working store before it. A group's losses are
  then those that only the failing store had. `FailingNotAskedAgain` needs
  `FailedInv`: a store that has failed a read is an owner of no chunk any more.
  Then the composition: `PartsKept`, that StoreRestore is MultiReader seen from the
  stores and Restore seen from the chain, so that all that is proved of the two (in
  RestoreProofs, used through `INSTANCE`) holds of it; and `RestoredFromStores`, from
  the stores to the output. What joins them is `Link`: what the chain has been told
  of a shard is how its read ended. So a shard it takes for lost has all its copies
  on failing stores (`CopiesFound`); the affordable ones are no more than
  `parity.join` makes up for; the restore has no reason for an error
  (`FailsForAReason`) and, without one, is whole and in order (`EndsWhole`,
  `OrderKept`). `OneStoreIsAffordable`: after `stripe` as `ParityCovers` has it, one
  failing store is.
- **ResumeProofs**: `BackupWritten`, `CopiesStayWhole`, `RestoresFind`,
  `NoCopyInExcess`. The invariant: the registry has all that the stores listed
  hold but for what a cp listing has left out and, with stripe, nothing else
  (`KnownInv`); with stripe one instance at a time writes a chunk, on stores that have no
  whole copy of it or are cp's, which may have one they did not list (`LockInv`,
  `WritersInv`);
  as long as nothing has failed, a file that was not there or was whole when the run
  started is whole, or one that writes to it has it right as far as it has come
  (`DataInv`). Writing over a whole file block by block leaves it whole, since each
  block is what was there already: `cp` without `O_TRUNC` does no harm. Only `dd` as a
  proc of the chain empties what is there, and `CopiesStayWhole` says so. For the last
  two theorems: once all is listed, what a store holds is in the registry, or being
  written, or was left out of a cp listing, or is on a store that has failed or was
  removed (`AllKnown`), and the copies planned and
  known on stores in use are no more than `Min` while some are being made
  (`ExcessInv`).

**That calls end.** Liveness itself the prover does not reach, but its two halves are
plain safety and are proved. The first: until it has ended a module's system is never
stuck, `NoDeadlock`, that is `Spec => []NeverStuck`. What a goroutine waits for (a
slot, a lock, a group, a lister, the last user) is spelt out in `CanMove`, since
`ENABLED` is out of reach as well; TLC has confirmed on the instances of the runs that
`CanMove` holds just where a step is enabled. The second: each step takes something
off a stock of work and adds nothing to it, `OnlySoManySteps`, that is
`Spec => [][Shrinks]_vars`, and the stock is finite, `LeftFinite`. Under the fairness
above the two give the end of every call; that last step is left to TLC.

- Restore: an instance waits for a slot only while another holds it, who can go on or
  has closed its output and only has to release; who waits for a group's other shards
  has closed and holds none. `SlotInv` says which instances hold which slots, and
  `PendingInv` that whoever has blocks to write holds join's. So no choice of slots
  is too small for the groups.
- StoreStripe: groups lock chunk after chunk, in any order, so without more they do
  block (`copies_same`). `NoDeadlock` assumes `NoRing`: among the groups that may be
  under way at a time there are none that could each wait for a chunk it shares with
  the next one, that one for another chunk, and so on round. A stuck state is such a
  ring: each group waits for a chunk that the next one holds (`HolderInv`). `SafeGroups` gives what is easy to see in a chain: a single slot in
  front of `stripe`, groups with no chunk in common, or two slots and no two groups
  with more than one chunk in common. That a plan exists whenever `Min` stores have
  room (`PlanExists`) is part of it.
- TmpDedup: who waits for a file's users is woken by the last, since an entry has a
  user or a removing goroutine that can go on, unless that one waits for `createdMu`,
  whose holder waits for nobody.
- Resume: locks that `Procs` has kept are never given back, but then there is an error
  among the results and the run can end (`EndInv`).
- In IndexProc and MultiReader nobody waits for anybody, in Stripe there is one thread;
  so the second half is all there is to prove. In Stripe it is the harder one:
  `Shrinks` is lexical, items first, then locations left to return, to draw or to pass
  over, then the cursor's way to the next of them. In MultiReader it holds with a
  shared variable too: reads end, though with the wrong stores.
- StoreRestore: by `PartsKept` a restore from stores gets stuck no more than Restore
  does, for a read waits for nobody; and `StoresOnlySoManySteps`: reads and chain do
  not keep each other going.

Only model-checked: every liveness property (`EventuallyWhole`, `Terminates`,
`AllReturn`, `EntriesGo`, `Ends`, `RestoreEnds`, `RunsEnd`) as such, of which the
theorems above prove the two halves; and `ParsedAsWritten` and `AcceptedIsTyped`,
since ProcString's `Parse` is a recursive operator.

## Not modelled, and the plan

The core (backup's index, striping, copies, quotas, temporary files; restore and
failover; stores from run to run; proc strings) is above. Not modelled, and why:

- **Statistics and the ticker** display only: what they count is not read by
  anything else.
- **The store in memory and `StrPart`**: the first is for tests, the second cuts a
  file name into directories, a pure function of the name.
- **The index format** (`index/`), **gzip**, **parity**'s codes, **split**'s
  boundaries: transformations of bytes; what the models need of them (a line that
  cannot be scanned, shards that parity makes up for, a checksum that tells a wrong
  block) is in Restore and Resume.
- **Commands whose output differs from run to run** (`gpg`, `src/README.md:146`): in
  Resume a chunk has the same bytes whenever it is written. With `cp` over a longer
  partial file the two would mix; this is listed as a hazard.

What would add most next:

1. **Chain and concur** on their own: the ends of a chain after all its finals,
   channels closed after all sends. IndexProc, Restore and StoreStripe have what they
   need of them in their steps.
2. **Larger groups** in `ShortJustified` with fewer stores than copies to make, or
   with copies already made, once it is settled what they should be promised.
