--------------------------- MODULE MCClusterSlots ---------------------------
(* Instances of ClusterSlots for TLC.                                       *)
EXTENDS ClusterSlots, TLC

\* Processes and slots are interchangeable; used by the safety run only.
Symmetry == Permutations(Procs) \cup Permutations(Slots)
=============================================================================
