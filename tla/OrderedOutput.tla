---------------------------- MODULE OrderedOutput ----------------------------
(***************************************************************************)
(* What a restore promises of the stream it writes, without slots, groups  *)
(* or goroutines: blocks come out in the order of the seed, none twice and *)
(* none left out, and the run is called a success only once all of them    *)
(* are out.  After a failed write nothing is promised but a failure.       *)
(***************************************************************************)
EXTENDS Integers, Sequences

VARIABLES total,   \* number of blocks the index stands for
          out,     \* the blocks written
          intact,  \* no write has failed
          result   \* "running", then "ok" or "failed"

outVars == <<total, out, intact, result>>

OutInit == /\ total \in Nat
           /\ out = <<>>
           /\ intact = TRUE
           /\ result = "running"

WriteNext == /\ intact /\ Len(out) < total
             /\ out' = Append(out, Len(out))
             /\ UNCHANGED <<total, intact, result>>

Spoil == ~intact' /\ UNCHANGED <<total, result>>

End == /\ result = "running"
       /\ \/ intact /\ Len(out) = total /\ result' = "ok"
          \/ result' = "failed"
       /\ UNCHANGED <<total, out, intact>>

OutSpec == OutInit /\ [][WriteNext \/ Spoil \/ End]_outVars
=============================================================================
