------------------------------ MODULE MCResume ------------------------------
(* Instances of Resume for TLC: a store of each kind. *)
EXTENDS Resume

CONSTANTS a, b, c, h1, h2, i1, i2, i3

MCKind == [s \in {a, b, c} |-> IF s = a THEN "cp" ELSE IF s = b THEN "dd" ELSE "rclone"]
MCSize == [h \in {h1, h2} |-> IF h = h1 THEN 2 ELSE 1]
MCHashOf == [i \in {i1, i2, i3} |-> IF i = i3 THEN h2 ELSE h1]
=============================================================================
