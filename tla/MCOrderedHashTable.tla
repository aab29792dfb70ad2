------------------------- MODULE MCOrderedHashTable -------------------------
EXTENDS OrderedHashTable, TLC
CONSTANTS k1, k2, k3

\* two keys that part when there are two buckets, and two that never do
MCHashOf == (k1 :> 0) @@ (k2 :> 0) @@ (k3 :> 1)
=============================================================================
