----------------------------- MODULE MCIndexProc -----------------------------
(* Instances of IndexProc for TLC: contents with two, one and no finals. *)
EXTENDS IndexProc

CONSTANTS a, b, c

MCHash == {a, b, c}
MCNFinals == [h \in MCHash |-> IF h = a THEN 2 ELSE IF h = b THEN 1 ELSE 0]
=============================================================================
