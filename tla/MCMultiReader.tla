---------------------------- MODULE MCMultiReader ----------------------------
EXTENDS MultiReader

CONSTANTS c1, c2, c3, c4, s1, s2, s3

\* A group striped over three stores, with some shards that an earlier backup
\* has left another copy of, and a chunk of another group
\* that may not be on any store.
MCListings == {f \in [{c1, c2, c3, c4} -> {{}, {s1}, {s2}, {s3}, {s1, s2}, {s1, s2, s3}}] :
                 f[c1] \in {{s1}, {s1, s2}} /\ f[c2] \in {{s2}, {s1, s2}} /\ f[c3] = {s3}}
MCGroups == {{c1, c2, c3}}
=============================================================================
