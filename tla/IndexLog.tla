------------------------------ MODULE IndexLog ------------------------------
(***************************************************************************)
(* What a backup promises of its index, without goroutines, locks or       *)
(* hashes of finals: the index lists, chunk after chunk in the order of    *)
(* the seed, the output chunks of every chunk of the seed, and it only     *)
(* ever grows at its end.  Once an error has been reported the run is lost *)
(* and nothing is promised of what is written after it.                    *)
(***************************************************************************)
EXTENDS Integers, Sequences

CONSTANTS N,        \* number of chunks the seed is split into
          Hash,     \* the contents chunks can have
          Lines(_)  \* the index lines of a content

VARIABLES content,  \* content of each chunk of the seed
          log,      \* the index: one block of lines per chunk
          failed    \* an error has been reported

logVars == <<content, log, failed>>

LogInit == /\ content \in [0 .. N - 1 -> Hash]
           /\ log = <<>>
           /\ failed = FALSE

\* Write the blocks of the chunks up to the m-th.
Publish == /\ ~failed
           /\ \E m \in Len(log) + 1 .. N :
                log' = [i \in 1 .. m |-> Lines(content[i - 1])]
           /\ UNCHANGED <<content, failed>>

\* Report an error; whatever is written with it or after it comes at the end.
Grows == /\ Len(log) <= Len(log')
         /\ \A i \in 1 .. Len(log) : log'[i] = log[i]

Fail == failed' /\ Grows /\ UNCHANGED content

LogNext == Publish \/ Fail

LogSpec == LogInit /\ [][LogNext]_logVars

\* The promise of a run: it ends with the whole index or with an error.
LogDone == <>(failed \/ Len(log) = N)
=============================================================================
