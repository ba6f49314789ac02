---------------------------- MODULE MCHashTable ----------------------------
(* Three keys, two of which collide, in two buckets.                         *)
EXTENDS HashTable

CONSTANTS n1, n2, n3

MCKeys == 1 .. 3
MCBuckets == {0, 1}
MCHash == [k \in MCKeys |-> k % 2]
MCNodes == {n1, n2, n3}
MCSymmetry == Permutations(MCNodes)
=============================================================================
