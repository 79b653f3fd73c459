-------------------------- MODULE MCSharedCluster --------------------------
(* SharedCluster for small sets of threads.                                *)
EXTENDS SharedCluster, TLC

CONSTANTS t1, t2, handle, cluster

Symmetry == Permutations({t1, t2}) \cup Permutations({handle, cluster})
=============================================================================
