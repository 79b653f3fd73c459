---------------------------- MODULE MCWindowsHook ----------------------------
(* WindowsHook with the postmaster and two other processes, whose PIDs and    *)
(* parent PIDs take every combination.                                     *)
EXTENDS WindowsHook, TLC

CONSTANTS server, x, y, p1, p2, p3

Symmetry == Permutations(Procs \ {Server}) \cup Permutations(Pids)
=============================================================================
