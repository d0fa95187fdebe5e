----------------------------- MODULE MCTmpDedup -----------------------------
(* Instances of TmpDedup for TLC: three users of two files. *)
EXTENDS TmpDedup

CONSTANTS u1, u2, u3, p, q

MCUser == {u1, u2, u3}
MCPath == {p, q}
=============================================================================
