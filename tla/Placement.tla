----------------------------- MODULE Placement -----------------------------
(***************************************************************************)
(* Where the copies of chunks are: functions from chunks to sets of        *)
(* stores.  What the striper promises those who ask it for copies          *)
(* (stores/stripe/stripe.go) and those who read them                       *)
(* (stores/multireader.go) is said with the same operators.                *)
(***************************************************************************)
EXTENDS Integers, FiniteSets

\* The copies that a chunk with the owners o has not, of the n it is to have on
\* stores D.
Lacking(o, D, n) == LET have == Cardinality(o \cap D)
                    IN  IF have >= n THEN 0 ELSE n - have

\* The ways to make just these for the chunks M, on stores of D that have none.
CopyPlans(M, own, D, n) ==
  {f \in [M -> SUBSET D] : \A h \in M : /\ f[h] \cap own[h] = {}
                                        /\ Cardinality(f[h]) = Lacking(own[h], D, n)}

\* The chunks of g that no other store than s has.
OnlyOn(f, g, s) == {c \in g : f[c] \subseteq {s}}
=============================================================================
