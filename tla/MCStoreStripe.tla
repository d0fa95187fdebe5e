---------------------------- MODULE MCStoreStripe ----------------------------
(* Instances of StoreStripe for TLC. *)
EXTENDS StoreStripe

CONSTANTS g1, g2, g3, h1, h2, h3, a, b, c

MCStore == {a, b, c}
MCQuota == [s \in MCStore |-> IF s = a THEN 1 ELSE IF s = b THEN 4 ELSE 9]

\* Groups that have a chunk in common with one that does not fit in every store.
ChainGroup == {g1, g2, g3}
ChainHash == {h1, h2, h3}
ChainMembers == [g \in ChainGroup |-> IF g = g1 THEN {h1, h2, h3}
                                      ELSE IF g = g2 THEN {h2} ELSE {h1}]
ChainListings == {[h \in ChainHash |-> IF h = h3 THEN {b} ELSE l[h]] :
                    l \in [{h1, h2} -> {{}, {a}, {b, c}}]}

\* Two groups of the same two chunks.
SameGroup == {g1, g2}
SameMembers == [g \in SameGroup |-> {h1, h2}]
=============================================================================
