--------------------------- MODULE MCStoreRestore ---------------------------
EXTENDS StoreRestore

CONSTANTS s1, s2, s3

\* Two groups of two shards over three stores, one of which has a shard of each
\* group; an earlier backup may have left another copy of one shard.
MCListings == {f \in [Chunk -> {{s1}, {s2}, {s3}, {s1, s2}}] :
                 f[0] \in {{s1}, {s1, s2}} /\ f[1] = {s2} /\ f[2] = {s1} /\ f[3] = {s3}}
MCGroups == {{0, 1}, {2, 3}}
=============================================================================
